---- MODULE Spec2Model ----
(***************************************************************************)
(* Model of the legacy EVT decoder of evt_parser: header decoding, the     *)
(* record frame walker in its eager (parse_evt_file) and lazy              *)
(* (iter_evt_records) modes, and the dirty-flag repair of utils.py.        *)
(*                                                                         *)
(* Buffers are sequences of bytes (0..255).  Python offsets are 0-based;   *)
(* the helpers below translate them to the 1-based sequences of TLA+.      *)
(* Every 32-bit field of the generated inputs keeps its top byte below     *)
(* 0x80, so that the decoded values fit the integers of the model checker. *)
(***************************************************************************)
EXTENDS Integers, Sequences, FiniteSets, TLC

VARIABLES data, pc, offset, record_count, records, errors, result, spans,
          ipc, ioffset, yielded, ispans,
          files, rcall, rret,
          fin, fout,
          disk, env, cpc, cargs, temp_file, effective_input, cresult,
          tool_calls, cleanup,
          bpc, bargs, evt_files, index, successful, failed, skipped, results,
          callbacks, summary, exit_code

vars == <<data, pc, offset, record_count, records, errors, result, spans,
          ipc, ioffset, yielded, ispans, files, rcall, rret, fin, fout,
          disk, env, cpc, cargs, temp_file, effective_input, cresult,
          tool_calls, cleanup,
          bpc, bargs, evt_files, index, successful, failed, skipped, results,
          callbacks, summary, exit_code>>

parseVars == <<pc, offset, record_count, records, errors, result, spans>>
iterVars == <<ipc, ioffset, yielded, ispans>>
repairVars == <<files, rcall, rret>>
fieldVars == <<fin, fout>>
convVars == <<disk, env, cpc, cargs, temp_file, effective_input, cresult,
              tool_calls, cleanup>>
batchVars == <<bpc, bargs, evt_files, index, successful, failed, skipped,
               results, callbacks, summary, exit_code>>

-----------------------------------------------------------------------------
(* Bounds of the model *)

MaxChunks == 3

-----------------------------------------------------------------------------
(* Program constants *)

EVT_HEADER_SIZE == 48
EVENTLOGRECORD_HEADER_SIZE == 56
EVT_SIGNATURE == <<76, 102, 76, 101>>
EVT_EOF_SIGNATURE ==
    <<17, 17, 17, 17, 34, 34, 34, 34, 51, 51, 51, 51, 68, 68, 68, 68>>
MaxRecordSize == 65536
EVT_FLAGS_OFFSET == 36
EVT_FLAG_DIRTY == 1
EOF_RECORD_SIZE == 40
END_OFFSET_LOCATION == 20
CURRENT_RECORD_LOCATION == 24
OLDEST_RECORD_LOCATION == 28

-----------------------------------------------------------------------------
(* Byte-level helpers: Python slicing, struct.unpack, bytes.find *)

Min(a, b) == IF a <= b THEN a ELSE b

Max(a, b) == IF a >= b THEN a ELSE b

(* data[a:b] for 0 <= a, with Python's clipping at the end of the data *)
Slice(d, a, b) ==
    IF a >= Min(b, Len(d)) THEN << >> ELSE SubSeq(d, a + 1, Min(b, Len(d)))

(* int.from_bytes(s, "little"); struct.unpack("<I", s)[0] when Len(s) = 4 *)
RECURSIVE FromBytesLE(_)
FromBytesLE(s) ==
    IF s = << >> THEN 0 ELSE s[1] + 256 * FromBytesLE(Tail(s))

U32(d, a) == FromBytesLE(Slice(d, a, a + 4))

U16(d, a) == FromBytesLE(Slice(d, a, a + 2))

(* n.to_bytes(4, "little") *)
ToBytes4(n) ==
    <<n % 256, (n \div 256) % 256, (n \div 65536) % 256,
      (n \div 16777216) % 256>>

(* d.find(pat, from): least position >= from where pat occurs, else -1 *)
Find(d, pat, from) ==
    LET hits == {i \in from .. (Len(d) - Len(pat)) :
                     Slice(d, i, i + Len(pat)) = pat}
    IN  IF hits = {} THEN -1
        ELSE CHOOSE i \in hits : \A j \in hits : i <= j

Zeros(n) == [i \in 1 .. n |-> 0]

-----------------------------------------------------------------------------
(* The bounded family of input buffers *)

Header(sig, start, endoff, cur, old, flags) ==
    ToBytes4(48) \o sig \o ToBytes4(1) \o ToBytes4(1) \o ToBytes4(start)
    \o ToBytes4(endoff) \o ToBytes4(cur) \o ToBytes4(old) \o ToBytes4(65536)
    \o ToBytes4(flags) \o ToBytes4(0) \o ToBytes4(48)

(* a record frame declaring `size` and occupying `span` bytes *)
Rec(size, span, num) ==
    ToBytes4(size) \o EVT_SIGNATURE \o ToBytes4(num) \o Zeros(span - 12)

EofRec(begin, endoff, cur, old) ==
    ToBytes4(40) \o EVT_EOF_SIGNATURE \o ToBytes4(begin) \o ToBytes4(endoff)
    \o ToBytes4(cur) \o ToBytes4(old) \o ToBytes4(40)

Garbage(n) == [i \in 1 .. n |-> 65]

ChunkSet ==
    { Rec(56, 56, 1), Rec(60, 60, 2),
      Rec(55, 56, 3), Rec(65537, 56, 4), Rec(200, 56, 5),
      EofRec(48, 104, 7, 3),
      Garbage(3), Garbage(8), EVT_SIGNATURE }

RECURSIVE Bodies(_)
Bodies(n) ==
    IF n = 0 THEN {<< >>}
    ELSE LET B == Bodies(n - 1)
         IN  B \cup {c \o b : c \in ChunkSet, b \in B}

StartOffsets == {48, 0, 1000}

BadMagic == <<76, 102, 76, 102>>

GoodInputs ==
    {Header(EVT_SIGNATURE, s, 0, 0, 0, 0) \o b :
        s \in StartOffsets, b \in Bodies(MaxChunks)}

(* buffers the header decoder rejects: wrong magic, or shorter than 48 *)
BadInputs ==
    {Header(BadMagic, 48, 0, 0, 0, 0) \o b : b \in Bodies(1)}
    \cup {Header(Zeros(4), 48, 0, 0, 0, 0)}
    \cup {Slice(Header(EVT_SIGNATURE, 48, 0, 0, 0, 0), 0, n) :
             n \in {0, 7, 8, 47}}

Inputs == GoodInputs \cup BadInputs

-----------------------------------------------------------------------------
(* parser.py: header, record decoding *)

None == [kind |-> "None"]

(* variant: the magic is compared at offset 0 instead of offset 4 *)
_parse_header_magic_at_0(d) ==
    IF Len(d) < EVT_HEADER_SIZE
    THEN [kind |-> "FileValidationError", msg |-> "File too small"]
    ELSE IF Slice(d, 0, 4) # EVT_SIGNATURE
    THEN [kind |-> "FileValidationError", msg |-> "Invalid EVT signature"]
    ELSE [kind |-> "EvtHeader", start_offset |-> U32(d, 16)]

(* _parse_header: the raised error, or the decoded header *)
_parse_header(d) ==
    IF Len(d) < EVT_HEADER_SIZE
    THEN [kind |-> "FileValidationError", msg |-> "File too small"]
    ELSE IF Slice(d, 4, 8) # EVT_SIGNATURE
    THEN [kind |-> "FileValidationError", msg |-> "Invalid EVT signature"]
    ELSE [kind |-> "EvtHeader",
          header_size |-> U32(d, 0),
          signature |-> Slice(d, 4, 8),
          major_version |-> U32(d, 8),
          minor_version |-> U32(d, 12),
          start_offset |-> U32(d, 16),
          end_offset |-> U32(d, 20),
          current_record_number |-> U32(d, 24),
          oldest_record_number |-> U32(d, 28),
          max_size |-> U32(d, 32),
          flags |-> U32(d, 36),
          retention |-> U32(d, 40),
          header_size_copy |-> U32(d, 44)]

Err(m, off) == [kind |-> "Error", msg |-> m, offset |-> off]

(* Variable-length fields of a record: _read_null_terminated_utf16 and    *)
(* _parse_sid.  A Python str is modelled as the sequence of its UTF-16    *)
(* code units; the text of a SID is a string of the model.                *)

(* U+FFFD, what decode(errors="replace") puts for an undecodable unit *)
REPLACEMENT_CHARACTER == 65533

(* default of the max_len parameter, in bytes *)
DEFAULT_MAX_LEN == 1024

IsHighSurrogate(u) == u >= 55296 /\ u <= 56319
IsLowSurrogate(u) == u >= 56320 /\ u <= 57343

(* bytes.decode("utf-16-le"), falling back to errors="replace": a high   *)
(* surrogate directly followed by a low one is a pair, any other        *)
(* surrogate and a trailing odd byte become U+FFFD                      *)
decode_utf16le(b) ==
    LET n == Len(b) \div 2
        unit(i) == b[2 * i - 1] + 256 * b[2 * i]
    IN  [i \in 1 .. n + (Len(b) % 2) |->
            IF i > n THEN REPLACEMENT_CHARACTER
            ELSE IF IsHighSurrogate(unit(i))
            THEN IF i < n /\ IsLowSurrogate(unit(i + 1))
                 THEN unit(i) ELSE REPLACEMENT_CHARACTER
            ELSE IF IsLowSurrogate(unit(i))
            THEN IF i > 1 /\ IsHighSurrogate(unit(i - 1))
                 THEN unit(i) ELSE REPLACEMENT_CHARACTER
            ELSE unit(i)]

(* the while loop of _read_null_terminated_utf16: the value of end, the *)
(* first of end, end + 2, ... that has reached limit or stands on a     *)
(* zero code unit                                                       *)
ScanEnd(d, limit, end) ==
    LET Stops(k) == \/ end + 2 * k >= limit
                    \/ (d[end + 2 * k + 1] = 0 /\ d[end + 2 * k + 2] = 0)
        steps == CHOOSE k \in 0 .. Max(0, (limit - end + 1) \div 2) :
                     Stops(k) /\ \A j \in 0 .. k - 1 : ~Stops(j)
    IN  end + 2 * steps

_read_null_terminated_utf16_on_terminator(d, off, max_len) ==
    LET end == ScanEnd(d, Min(off + max_len, Len(d) - 1), off)
    IN  [string |-> decode_utf16le(Slice(d, off, end)), next |-> end]

_read_null_terminated_utf16(d, off, max_len) ==
    LET end == ScanEnd(d, Min(off + max_len, Len(d) - 1), off)
    IN  [string |-> decode_utf16le(Slice(d, off, end)), next |-> end + 2]

(* int.from_bytes(b, "big") *)
RECURSIVE FromBytesBE(_)
FromBytesBE(b) ==
    IF b = << >> THEN 0
    ELSE b[Len(b)] + 256 * FromBytesBE(SubSeq(b, 1, Len(b) - 1))

(* sep.join(parts) *)
RECURSIVE Join(_, _)
Join(sep, parts) ==
    IF parts = << >> THEN ""
    ELSE IF Len(parts) = 1 THEN parts[1]
    ELSE parts[1] \o sep \o Join(sep, Tail(parts))

(* the list sub_auths: str of each little-endian sub-authority *)
SubAuths(d) ==
    [i \in 1 .. d[2] |-> ToString(U32(d, 8 + (i - 1) * 4))]

_parse_sid(d) ==
    IF Len(d) < 8 THEN None
    ELSE IF Len(d) < 8 + d[2] * 4 THEN None
    ELSE [kind |-> "str",
          text |-> "S-" \o ToString(d[1]) \o "-"
                   \o ToString(FromBytesBE(Slice(d, 2, 8))) \o "-"
                   \o Join("-", SubAuths(d))]

(* lines 296-302: the loop over range(num_strings), left when str_pos *)
(* has reached `stop`                                                 *)
RECURSIVE ReadStringsUntil(_, _, _, _)
ReadStringsUntil(raw, str_pos, n, stop) ==
    IF n = 0 \/ str_pos >= stop THEN << >>
    ELSE LET r == _read_null_terminated_utf16(raw, str_pos,
                                              Len(raw) - str_pos)
         IN  <<r.string>> \o ReadStringsUntil(raw, r.next, n - 1, stop)

(* variant: the loop goes on behind the end of the record *)
ReadStrings_no_break(raw, string_offset, num_strings) ==
    ReadStringsUntil(raw, string_offset, num_strings,
                     Len(raw) + string_offset + 2 * num_strings + 2)

(* the strings read from string_offset: the loop stops at record_size *)
ReadStrings(raw, string_offset, num_strings) ==
    ReadStringsUntil(raw, string_offset, num_strings, Len(raw))

(* variant: an offset of 0 is accepted *)
SidInRecord_offset_0(user_sid_length, user_sid_offset, record_size) ==
    /\ user_sid_length > 0
    /\ user_sid_offset + user_sid_length <= record_size

(* the condition of lines 284-288 *)
SidInRecord(user_sid_length, user_sid_offset, record_size) ==
    /\ user_sid_length > 0
    /\ user_sid_offset > 0
    /\ user_sid_offset + user_sid_length <= record_size

(* the fields read from a framed record, record_size = len(raw_record): *)
(* the fixed 56-byte block and the variable-length fields behind it     *)
EventRecord(raw) ==
    LET record_size == Len(raw)
        num_strings == U16(raw, 26)
        string_offset == U32(raw, 36)
        user_sid_length == U32(raw, 40)
        user_sid_offset == U32(raw, 44)
        data_length == U32(raw, 48)
        data_offset == U32(raw, 52)
        source_name == _read_null_terminated_utf16(
                           raw, EVENTLOGRECORD_HEADER_SIZE, DEFAULT_MAX_LEN)
        computer_name == _read_null_terminated_utf16(
                             raw, source_name.next, DEFAULT_MAX_LEN)
    IN  [kind |-> "EventRecord",
         record_number |-> U32(raw, 8),
         time_generated |-> U32(raw, 12),
         time_written |-> U32(raw, 16),
         event_id |-> U32(raw, 20) % 65536,
         event_type_raw |-> U16(raw, 24),
         event_category |-> U16(raw, 28),
         source |-> source_name.string,
         computer_name |-> computer_name.string,
         user_sid |->
             IF SidInRecord(user_sid_length, user_sid_offset, record_size)
             THEN _parse_sid(Slice(raw, user_sid_offset,
                                   user_sid_offset + user_sid_length))
             ELSE None,
         strings |->
             IF num_strings > 0 /\ string_offset > 0
                /\ string_offset < record_size
             THEN ReadStrings(raw, string_offset, num_strings)
             ELSE << >>,
         data |->
             IF data_length > 0 /\ data_offset > 0
                /\ data_offset + data_length <= record_size
             THEN [kind |-> "bytes",
                   value |-> Slice(raw, data_offset,
                                   data_offset + data_length)]
             ELSE None,
         raw_record |-> raw]

(* variant: a record of exactly the minimum size is rejected *)
InvalidSize_min_inclusive(record_size) ==
    record_size <= EVENTLOGRECORD_HEADER_SIZE \/ record_size > MaxRecordSize

(* the size check of line 249 *)
InvalidSize(record_size) ==
    record_size < EVENTLOGRECORD_HEADER_SIZE \/ record_size > MaxRecordSize

(* variant: the cursor advances by the declared size *)
InvalidSizeResult_skip_size(off, record_size) ==
    [record |-> None, next_offset |-> off + record_size,
     error |-> Err("Invalid record size", off)]

(* the return value for an invalid declared size *)
InvalidSizeResult(off, record_size) ==
    [record |-> None, next_offset |-> off + 4,
     error |-> Err("Invalid record size", off)]

(* variant: scanning goes on behind the length word of the truncated frame *)
PastEndResult_continue(d, off) ==
    [record |-> None, next_offset |-> off + 4,
     error |-> Err("Record extends past end of file", off)]

(* variant: the truncated frame is emitted with the bytes that are there *)
PastEndResult_emits(d, off) ==
    [record |-> EventRecord(Slice(d, off, Len(d))),
     next_offset |-> Len(d),
     error |-> None]

(* the return value for a frame that extends past the end of the data *)
PastEndResult(d, off) ==
    [record |-> None, next_offset |-> Len(d),
     error |-> Err("Record extends past end of file", off)]

(* _parse_event_record: (record, next_offset, error_message) *)
_parse_event_record(d, off) ==
    IF off + 8 > Len(d)
    THEN [record |-> None, next_offset |-> off,
          error |-> Err("Insufficient data for record header", off)]
    ELSE LET record_size == U32(d, off)
             signature == Slice(d, off + 4, off + 8)
         IN  IF signature = Slice(EVT_EOF_SIGNATURE, 0, 4)
             THEN [record |-> None, next_offset |-> off + 40, error |-> None]
             ELSE IF signature # EVT_SIGNATURE
             THEN [record |-> None, next_offset |-> off + 4,
                   error |-> Err("Invalid record signature", off)]
             ELSE IF InvalidSize(record_size)
             THEN InvalidSizeResult(off, record_size)
             ELSE IF off + record_size > Len(d)
             THEN PastEndResult(d, off)
             ELSE [record |-> EventRecord(Slice(d, off, off + record_size)),
                   next_offset |-> off + record_size,
                   error |-> None]

(* variant: an empty log does not count as a success *)
success_needs_record(valid_records, total_records) ==
    valid_records > 0

(* ParseResult.success *)
success(valid_records, total_records) ==
    valid_records > 0 \/ total_records = 0

(* the ParseResult built at the end of parse_evt_file *)
ParseResult(hdr, recs, count, errs) ==
    [kind |-> "ParseResult",
     header |-> hdr,
     records |-> recs,
     total_records |-> count,
     valid_records |-> Len(recs),
     parse_errors |-> Len(errs),
     errors |-> errs]

(* the loop condition of both walkers *)
WhileCond(d, off) == off < Len(d) - 8

(* history of the walk: the frame [cursor, cursor + size) of an emitted *)
(* record, size being the record_size read at the cursor                *)
Span(cursor, size) == [cursor |-> cursor, size |-> size]

(* data[offset + 4 : offset + 8] *)
SigAt(d, off) == Slice(d, off + 4, off + 8)

-----------------------------------------------------------------------------
(* parse_evt_file, one action per path through the loop body *)

(* file read, size check and header decoding; raises or enters the loop *)
ParseStart ==
    /\ pc = "start"
    /\ IF Len(data) < EVT_HEADER_SIZE
          \/ _parse_header(data).kind = "FileValidationError"
       THEN /\ pc' = "raised"
            /\ UNCHANGED <<offset, record_count, records, errors, result,
                           spans>>
       ELSE /\ pc' = "loop"
            /\ offset' = _parse_header(data).start_offset
            /\ record_count' = 0
            /\ records' = << >>
            /\ errors' = << >>
            /\ spans' = << >>
            /\ UNCHANGED result
    /\ UNCHANGED <<data, iterVars, repairVars,
                 fieldVars, convVars, batchVars>>

Return ==
    /\ pc' = "done"
    /\ result' = ParseResult(_parse_header(data), records, record_count,
                             errors)
    /\ UNCHANGED <<offset, record_count, records, errors, spans>>

(* the while condition is false *)
ParseExit ==
    /\ pc = "loop"
    /\ ~WhileCond(data, offset)
    /\ Return
    /\ UNCHANGED <<data, iterVars, repairVars,
                 fieldVars, convVars, batchVars>>

(* variant: the EOF frame is stepped over and the walk goes on *)
ParseEof_skips ==
    /\ pc = "loop"
    /\ WhileCond(data, offset)
    /\ SigAt(data, offset) = Slice(EVT_EOF_SIGNATURE, 0, 4)
    /\ offset' = offset + 40
    /\ UNCHANGED <<pc, record_count, records, errors, result, spans>>
    /\ UNCHANGED <<data, iterVars, repairVars,
                 fieldVars, convVars, batchVars>>

(* EOF signature at the cursor: break *)
ParseEof ==
    /\ pc = "loop"
    /\ WhileCond(data, offset)
    /\ SigAt(data, offset) = Slice(EVT_EOF_SIGNATURE, 0, 4)
    /\ Return
    /\ UNCHANGED <<data, iterVars, repairVars,
                 fieldVars, convVars, batchVars>>

(* variant: an exhausted search is reported as an error *)
ParseResync_reports ==
    /\ pc = "loop"
    /\ WhileCond(data, offset)
    /\ SigAt(data, offset) # Slice(EVT_EOF_SIGNATURE, 0, 4)
    /\ SigAt(data, offset) # EVT_SIGNATURE
    /\ LET next_lfle == Find(data, EVT_SIGNATURE, offset + 4)
       IN  IF next_lfle = -1
           THEN /\ pc' = "done"
                /\ errors' =
                       Append(errors, Err("Invalid record signature", offset))
                /\ result' = ParseResult(_parse_header(data), records,
                                         record_count, errors')
                /\ UNCHANGED <<offset, record_count, records, spans>>
           ELSE /\ offset' = next_lfle - 4
                /\ UNCHANGED <<pc, record_count, records, errors, result, spans>>
    /\ UNCHANGED <<data, iterVars, repairVars,
                 fieldVars, convVars, batchVars>>

(* variant: the search for the next LfLe starts at the cursor itself *)
ParseResync_from_cursor ==
    /\ pc = "loop"
    /\ WhileCond(data, offset)
    /\ SigAt(data, offset) # Slice(EVT_EOF_SIGNATURE, 0, 4)
    /\ SigAt(data, offset) # EVT_SIGNATURE
    /\ LET next_lfle == Find(data, EVT_SIGNATURE, offset)
       IN  IF next_lfle = -1
           THEN Return
           ELSE /\ offset' = next_lfle - 4
                /\ UNCHANGED <<pc, record_count, records, errors, result, spans>>
    /\ UNCHANGED <<data, iterVars, repairVars,
                 fieldVars, convVars, batchVars>>

(* variant: the jump is counted as a record *)
ParseResync_counts ==
    /\ pc = "loop"
    /\ WhileCond(data, offset)
    /\ SigAt(data, offset) # Slice(EVT_EOF_SIGNATURE, 0, 4)
    /\ SigAt(data, offset) # EVT_SIGNATURE
    /\ LET next_lfle == Find(data, EVT_SIGNATURE, offset + 4)
       IN  IF next_lfle = -1
           THEN Return
           ELSE /\ offset' = next_lfle - 4
                /\ record_count' = record_count + 1
                /\ UNCHANGED <<pc, records, errors, result, spans>>
    /\ UNCHANGED <<data, iterVars, repairVars,
                 fieldVars, convVars, batchVars>>

(* neither signature: search the next LfLe; break or jump to it *)
ParseResync ==
    /\ pc = "loop"
    /\ WhileCond(data, offset)
    /\ SigAt(data, offset) # Slice(EVT_EOF_SIGNATURE, 0, 4)
    /\ SigAt(data, offset) # EVT_SIGNATURE
    /\ LET next_lfle == Find(data, EVT_SIGNATURE, offset + 4)
       IN  IF next_lfle = -1
           THEN Return
           ELSE /\ offset' = next_lfle - 4
                /\ UNCHANGED <<pc, record_count, records, errors, result, spans>>
    /\ UNCHANGED <<data, iterVars, repairVars,
                 fieldVars, convVars, batchVars>>

(* LfLe at the cursor: decode the frame, count it, advance or break *)
ParseRecord ==
    /\ pc = "loop"
    /\ WhileCond(data, offset)
    /\ SigAt(data, offset) # Slice(EVT_EOF_SIGNATURE, 0, 4)
    /\ SigAt(data, offset) = EVT_SIGNATURE
    /\ LET r == _parse_event_record(data, offset)
           errs == IF r.error # None THEN Append(errors, r.error)
                   ELSE errors
           recs == IF r.record # None THEN Append(records, r.record)
                   ELSE records
           sps == IF r.record # None
                  THEN Append(spans, Span(offset, U32(data, offset)))
                  ELSE spans
       IN  IF r.next_offset <= offset
           THEN /\ pc' = "done"
                /\ result' = ParseResult(_parse_header(data), recs,
                                         record_count + 1, errs)
                /\ record_count' = record_count + 1
                /\ errors' = errs
                /\ records' = recs
                /\ spans' = sps
                /\ UNCHANGED offset
           ELSE /\ offset' = r.next_offset
                /\ record_count' = record_count + 1
                /\ errors' = errs
                /\ records' = recs
                /\ spans' = sps
                /\ UNCHANGED <<pc, result>>
    /\ UNCHANGED <<data, iterVars, repairVars,
                 fieldVars, convVars, batchVars>>

-----------------------------------------------------------------------------
(* iter_evt_records, run on the same file once parse_evt_file has finished *)

EagerFinished == pc \in {"done", "raised"}

(* variant: the lazy walk starts right behind the header *)
IterStart_fixed_start ==
    /\ EagerFinished
    /\ ipc = "start"
    /\ IF Len(data) < EVT_HEADER_SIZE
          \/ _parse_header(Slice(data, 0, EVT_HEADER_SIZE)).kind
                 = "FileValidationError"
       THEN /\ ipc' = "raised"
            /\ UNCHANGED <<ioffset, yielded, ispans>>
       ELSE /\ ipc' = "loop"
            /\ ioffset' = EVT_HEADER_SIZE
            /\ yielded' = << >>
            /\ ispans' = << >>
    /\ UNCHANGED <<data, parseVars, repairVars,
                 fieldVars, convVars, batchVars>>

(* size check and header decoding on mm[:48]; raises or enters the loop *)
IterStart ==
    /\ EagerFinished
    /\ ipc = "start"
    /\ IF Len(data) < EVT_HEADER_SIZE
          \/ _parse_header(Slice(data, 0, EVT_HEADER_SIZE)).kind
                 = "FileValidationError"
       THEN /\ ipc' = "raised"
            /\ UNCHANGED <<ioffset, yielded, ispans>>
       ELSE /\ ipc' = "loop"
            /\ ioffset' =
                   _parse_header(Slice(data, 0, EVT_HEADER_SIZE)).start_offset
            /\ yielded' = << >>
            /\ ispans' = << >>
    /\ UNCHANGED <<data, parseVars, repairVars,
                 fieldVars, convVars, batchVars>>

IterExit ==
    /\ ipc = "loop"
    /\ ~WhileCond(data, ioffset)
    /\ ipc' = "done"
    /\ UNCHANGED <<ioffset, yielded, ispans>>
    /\ UNCHANGED <<data, parseVars, repairVars,
                 fieldVars, convVars, batchVars>>

IterEof ==
    /\ ipc = "loop"
    /\ WhileCond(data, ioffset)
    /\ SigAt(data, ioffset) = Slice(EVT_EOF_SIGNATURE, 0, 4)
    /\ ipc' = "done"
    /\ UNCHANGED <<ioffset, yielded, ispans>>
    /\ UNCHANGED <<data, parseVars, repairVars,
                 fieldVars, convVars, batchVars>>

IterResync ==
    /\ ipc = "loop"
    /\ WhileCond(data, ioffset)
    /\ SigAt(data, ioffset) # Slice(EVT_EOF_SIGNATURE, 0, 4)
    /\ SigAt(data, ioffset) # EVT_SIGNATURE
    /\ LET next_lfle == Find(data, EVT_SIGNATURE, ioffset + 4)
       IN  IF next_lfle = -1
           THEN /\ ipc' = "done"
                /\ UNCHANGED <<ioffset, yielded, ispans>>
           ELSE /\ ioffset' = next_lfle - 4
                /\ UNCHANGED <<ipc, yielded, ispans>>
    /\ UNCHANGED <<data, parseVars, repairVars,
                 fieldVars, convVars, batchVars>>

IterRecord ==
    /\ ipc = "loop"
    /\ WhileCond(data, ioffset)
    /\ SigAt(data, ioffset) # Slice(EVT_EOF_SIGNATURE, 0, 4)
    /\ SigAt(data, ioffset) = EVT_SIGNATURE
    /\ LET r == _parse_event_record(data, ioffset)
       IN  /\ yielded' = IF r.record # None THEN Append(yielded, r.record)
                         ELSE yielded
           /\ ispans' = IF r.record # None
                        THEN Append(ispans, Span(ioffset, U32(data, ioffset)))
                        ELSE ispans
           /\ IF r.next_offset <= ioffset
              THEN ipc' = "done" /\ UNCHANGED ioffset
              ELSE ioffset' = r.next_offset /\ UNCHANGED ipc
    /\ UNCHANGED <<data, parseVars, repairVars,
                 fieldVars, convVars, batchVars>>

-----------------------------------------------------------------------------
(* utils.py: repair_dirty_evt over a small file system *)

InputPath == "in.evt"
OutputPath == "out.evt"
TempPath == "in_repaired.evt.tmp"
Paths == {InputPath, OutputPath, TempPath}

MaxFiles == 2

(* the .evt files a source directory may hold, in sorted order *)
EvtName(i) == "f" \o ToString(i) \o ".evt"
EvtNames == [i \in 1 .. MaxFiles |-> EvtName(i)]

(* Path.stem and Path.suffix of the paths that are split *)
Stems == {"in", "notes"} \cup {"f" \o ToString(i) : i \in 1 .. MaxFiles}
Suffixes == {".evt", ".txt"}
Stem(p) == CHOOSE s \in Stems : \E x \in Suffixes : p = s \o x
Suffix(p) == CHOOSE x \in Suffixes : p = Stem(p) \o x

(* tempfile.mkstemp(suffix=".evt.tmp", prefix=stem + "_repaired_", *)
(* dir=input_file.parent)                                          *)
TempPathFor(input_file) == Stem(input_file) \o "_repaired.evt.tmp"

File(content) == [exists |-> TRUE, content |-> content]
Absent == [exists |-> FALSE, content |-> << >>]

(* f.seek(pos); f.write(bytes) on a file holding `content` *)
WriteAt(content, pos, bytes) ==
    [i \in 1 .. Max(Len(content), pos + Len(bytes)) |->
        IF i > pos /\ i <= pos + Len(bytes) THEN bytes[i - pos]
        ELSE IF i <= Len(content) THEN content[i]
        ELSE 0]

(* variant: the wrapped bit is cleared together with the dirty bit *)
ClearDirty_and_wrap(flags) == flags - (flags % 4)

(* variant: the whole flags word is cleared *)
ClearDirty_all_flags(flags) == flags - flags

(* flags & ~EVT_FLAG_DIRTY *)
ClearDirty(flags) == flags - (flags % 2)

(* variant: end_offset is set to the start of the EOF record *)
CorrectEndOffset_record_start(eof_sig_pos) ==
    eof_sig_pos - 4

(* end_offset points to after the EOF record, which starts 4 bytes before *)
(* its signature                                                          *)
CorrectEndOffset(eof_sig_pos) ==
    LET eof_record_start == eof_sig_pos - 4
    IN  eof_record_start + EOF_RECORD_SIZE

(* the bytes of the copy after the writes of lines 301-344 *)
Repaired(content) ==
    LET eof_sig_pos == Find(content, EVT_EOF_SIGNATURE, 0)
        flags == FromBytesLE(Slice(content, EVT_FLAGS_OFFSET,
                                   EVT_FLAGS_OFFSET + 4))
        c1 == WriteAt(content, EVT_FLAGS_OFFSET, ToBytes4(ClearDirty(flags)))
    IN  IF eof_sig_pos >= 0
        THEN LET correct_end_offset == CorrectEndOffset(eof_sig_pos)
                 eof_current_record ==
                     FromBytesLE(Slice(content, eof_sig_pos + 24,
                                       eof_sig_pos + 28))
                 eof_oldest_record ==
                     FromBytesLE(Slice(content, eof_sig_pos + 28,
                                       eof_sig_pos + 32))
                 c2 == WriteAt(c1, END_OFFSET_LOCATION,
                               ToBytes4(correct_end_offset))
                 c3 == WriteAt(c2, CURRENT_RECORD_LOCATION,
                               ToBytes4(eof_current_record))
             IN  WriteAt(c3, OLDEST_RECORD_LOCATION,
                         ToBytes4(eof_oldest_record))
        ELSE c1

(* repair_dirty_evt(input_file, output_file): the file system afterwards    *)
(* and the returned path or raised error.  io_ok = FALSE is an OSError of   *)
(* the copy or of a write; copying a file onto itself is SameFileError, an  *)
(* OSError as well.  The handler removes the output file and re-raises.     *)
repair_dirty_evt(fs, input_file, output_file, io_ok) ==
    LET out == IF output_file = "None" THEN TempPathFor(input_file)
               ELSE output_file
        fs1 == IF output_file = "None"
               THEN [fs EXCEPT ![TempPathFor(input_file)] = File(<< >>)]
               ELSE fs
    IN  IF ~fs1[input_file].exists \/ out = input_file \/ ~io_ok
        THEN [files |-> [fs1 EXCEPT ![out] = Absent],
              ret |-> [kind |-> "FileValidationError", path |-> out]]
        ELSE [files |-> [fs1 EXCEPT
                            ![out] = File(Repaired(fs1[input_file].content))],
              ret |-> [kind |-> "Path", path |-> out]]

OutputArgs == {"None", InputPath, OutputPath}

Repair ==
    /\ rcall = None
    /\ \E output_file \in OutputArgs, io_ok \in BOOLEAN :
          LET r == repair_dirty_evt(files, InputPath, output_file, io_ok)
          IN  /\ files' = r.files
              /\ rret' = r.ret
              /\ rcall' = [kind |-> "Call", output_file |-> output_file,
                           io_ok |-> io_ok]
    /\ UNCHANGED <<data, parseVars, iterVars,
                 fieldVars, convVars, batchVars>>

-----------------------------------------------------------------------------
(* Inputs of the repair *)

RepairChunks ==
    { Rec(56, 56, 1), EofRec(48, 104, 7, 3), EofRec(48, 144, 9, 2),
      Slice(EofRec(48, 104, 7, 3), 0, 24), Garbage(3) }

RECURSIVE RepairBodies(_)
RepairBodies(n) ==
    IF n = 0 THEN {<< >>}
    ELSE LET B == RepairBodies(n - 1)
         IN  B \cup {c \o b : c \in RepairChunks, b \in B}

HeaderTrailers == {<<0, 0, 0>>, <<144, 9, 2>>}

RepairInputs ==
    {Header(EVT_SIGNATURE, 48, t[1], t[2], t[3], fl) \o b :
        t \in HeaderTrailers, fl \in 0 .. 3, b \in RepairBodies(MaxChunks)}
    \cup {EofRec(48, 104, 7, 3), EofRec(48, 104, 7, 3) \o Garbage(8)}
    \cup {Slice(Header(EVT_SIGNATURE, 48, 0, 0, 0, 1), 0, n) :
             n \in {0, 30, 38, 40}}

-----------------------------------------------------------------------------
(* Specifications *)

IdleParse ==
    /\ pc = "start"
    /\ offset = 0
    /\ record_count = 0
    /\ records = << >>
    /\ errors = << >>
    /\ result = None
    /\ ipc = "start"
    /\ ioffset = 0
    /\ yielded = << >>
    /\ spans = << >>
    /\ ispans = << >>

IdleRepair ==
    /\ rcall = None
    /\ rret = None

IdleFields ==
    /\ fin = None
    /\ fout = None

IdleConvert ==
    /\ disk = << >>
    /\ env = None
    /\ cpc = "idle"
    /\ cargs = None
    /\ temp_file = None
    /\ effective_input = None
    /\ cresult = None
    /\ tool_calls = << >>
    /\ cleanup = None

IdleBatch ==
    /\ bpc = "idle"
    /\ bargs = None
    /\ evt_files = << >>
    /\ index = 0
    /\ successful = 0
    /\ failed = 0
    /\ skipped = 0
    /\ results = << >>
    /\ callbacks = << >>
    /\ summary = None
    /\ exit_code = None

(* parsing: any buffer of the family, stored as the input file *)
Init ==
    /\ data \in Inputs
    /\ IdleParse
    /\ IdleRepair
    /\ IdleFields
    /\ IdleConvert
    /\ IdleBatch
    /\ files = [p \in Paths |-> IF p = InputPath THEN File(data) ELSE Absent]

Next ==
    \/ ParseStart
    \/ ParseExit
    \/ ParseEof
    \/ ParseResync
    \/ ParseRecord
    \/ IterStart
    \/ IterExit
    \/ IterEof
    \/ IterResync
    \/ IterRecord

Spec == Init /\ [][Next]_vars

(* repair: the input file holds a buffer of the repair family; the output *)
(* path names no file or an existing one                                  *)
InitRepair ==
    /\ data \in RepairInputs
    /\ IdleParse
    /\ IdleRepair
    /\ IdleFields
    /\ IdleConvert
    /\ IdleBatch
    /\ \E existing \in BOOLEAN :
          files = [p \in Paths |->
                      IF p = InputPath THEN File(data)
                      ELSE IF p = OutputPath /\ existing
                      THEN File(Garbage(8))
                      ELSE Absent]

NextRepair == Repair

SpecRepair == InitRepair /\ [][NextRepair]_vars

-----------------------------------------------------------------------------
(* Properties of the walkers, checked under Spec *)

(* the record magic does not occur at any position >= from *)
NoMagicFrom(d, from) ==
    \A i \in from .. (Len(d) - 4) : Slice(d, i, i + 4) # <<76, 102, 76, 101>>

EofPrefix == <<17, 17, 17, 17>>

HeaderRejected(d) ==
    Len(d) < 48 \/ Slice(d, 4, 8) # <<76, 102, 76, 101>>

(* C1: header decoding raises a validation error exactly for the buffers  *)
(* shorter than 48 bytes and those whose bytes 4..7 are not "LfLe"; for   *)
(* every other buffer parse_evt_file enters the record walk.              *)
C1_HeaderDecode ==
    pc # "start" =>
        IF HeaderRejected(data) THEN pc = "raised"
        ELSE pc \in {"loop", "done"} /\ offset >= 0

C1_Witness ==
    /\ pc = "raised"
    /\ Len(data) >= 48
    /\ Slice(data, 4, 8) # <<76, 102, 76, 101>>

(* C2: every returned outcome has valid_records <= total_records, and its *)
(* success is true exactly when valid_records > 0 or total_records = 0,   *)
(* so an outcome with zero total records is a success.                    *)
C2_Counts ==
    pc = "done" =>
        /\ result.valid_records <= result.total_records
        /\ success(result.valid_records, result.total_records)
             <=> (result.valid_records > 0 \/ result.total_records = 0)
        /\ result.total_records = 0
             => success(result.valid_records, result.total_records)

C2_Witness ==
    /\ pc = "done"
    /\ result.total_records = 0
    /\ Len(data) > 56
    /\ success(result.valid_records, result.total_records)

(* the start offsets of the records of a log made of contiguous          *)
(* well-formed records from `off` up to a 40-byte EOF record that ends    *)
(* the buffer; <<-1>> when the buffer is not of that shape                *)
RECURSIVE WellFormedFrames(_, _)
WellFormedFrames(d, off) ==
    IF off + 40 = Len(d) /\ Slice(d, off + 4, off + 20) = EVT_EOF_SIGNATURE
    THEN << >>
    ELSE IF /\ off + 56 <= Len(d)
            /\ Slice(d, off + 4, off + 8) = <<76, 102, 76, 101>>
            /\ U32(d, off) >= 56
            /\ U32(d, off) <= 65536
            /\ off + U32(d, off) <= Len(d)
    THEN LET rest == WellFormedFrames(d, off + U32(d, off))
         IN  IF rest = <<-1>> THEN <<-1>> ELSE <<off>> \o rest
    ELSE <<-1>>

WellFormedLog(d) ==
    /\ ~HeaderRejected(d)
    /\ U32(d, 16) = 48
    /\ WellFormedFrames(d, 48) # <<-1>>

(* C3: a valid header with start offset 48, n contiguous well-formed      *)
(* records and a final 40-byte EOF record decode to exactly those n       *)
(* records in buffer order, with total = valid = n and no error.          *)
C3_WellFormedLog ==
    (pc = "done" /\ WellFormedLog(data)) =>
        LET fr == WellFormedFrames(data, 48)
        IN  /\ Len(result.records) = Len(fr)
            /\ \A i \in 1 .. Len(fr) :
                  /\ result.records[i].raw_record
                       = Slice(data, fr[i], fr[i] + U32(data, fr[i]))
                  /\ result.records[i].record_number = U32(data, fr[i] + 8)
            /\ result.total_records = Len(fr)
            /\ result.valid_records = Len(fr)
            /\ result.errors = << >>

C3_Witness ==
    /\ pc = "done"
    /\ WellFormedLog(data)
    /\ Len(result.records) = 2
    /\ result.records[1].record_number # result.records[2].record_number

(* the walker stands in the loop at a frame with the record magic *)
AtRecordMagic ==
    /\ pc = "loop"
    /\ offset + 8 < Len(data)
    /\ Slice(data, offset + 4, offset + 8) = <<76, 102, 76, 101>>

C6_Exhausted ==
    [][(/\ pc = "loop"
        /\ Slice(data, offset + 4, offset + 8) # <<76, 102, 76, 101>>
        /\ Slice(data, offset + 4, offset + 8) # EofPrefix
        /\ NoMagicFrom(data, offset + 4))
         => /\ pc' = "done"
            /\ result'.kind = "ParseResult"
            /\ result'.records = records
            /\ result'.errors = errors
            /\ result'.total_records = record_count]_vars

C6_Witness ==
    /\ pc = "done"
    /\ U32(data, 16) = 48
    /\ Len(data) > 56
    /\ Slice(data, 52, 56) # <<76, 102, 76, 101>>
    /\ Slice(data, 52, 56) # EofPrefix
    /\ NoMagicFrom(data, 52)
    /\ result.records = << >>
    /\ result.errors = << >>
    /\ result.total_records = 0

(* C10: the lazy walk raises exactly when the eager one does and          *)
(* otherwise yields the same records, in the same order, as the eager     *)
(* outcome lists.                                                         *)
C10_LazyEqualsEager ==
    (pc \in {"done", "raised"} /\ ipc \in {"done", "raised"}) =>
        /\ (ipc = "raised") <=> (pc = "raised")
        /\ pc = "done" => yielded = result.records

C10_Witness ==
    /\ pc = "done"
    /\ ipc = "done"
    /\ Len(yielded) >= 2
    /\ Len(result.errors) >= 1

-----------------------------------------------------------------------------
(* Properties of the repair, checked under SpecRepair *)

(* positions at which the 16-byte EOF pattern occurs *)
EofPatternAt(d) ==
    {i \in 0 .. (Len(d) - 16) :
        Slice(d, i, i + 16) =
            <<17, 17, 17, 17, 34, 34, 34, 34, 51, 51, 51, 51, 68, 68, 68, 68>>}

FirstEofPattern(d) ==
    CHOOSE i \in EofPatternAt(d) : \A j \in EofPatternAt(d) : i <= j

(* the buffer holds an EOF record: the first EOF pattern lies behind the  *)
(* 48-byte header, preceded by its size word and followed by its fields    *)
HasEofRecord(d) ==
    /\ EofPatternAt(d) # {}
    /\ FirstEofPattern(d) - 4 >= 48
    /\ FirstEofPattern(d) + 36 <= Len(d)

EofRecordStart(d) == FirstEofPattern(d) - 4

DirtyBit(d) == d[37] % 2

Returned == rret.kind = "Path"

RepairedCopy == files[rret.path].content

(* C7 as stated: the repaired header's end offset, current and oldest     *)
(* record numbers equal the EOF record's end-offset, current and oldest   *)
(* fields, and the dirty bit is cleared.                                   *)
C7_EofFieldsCopied ==
    (Returned /\ Len(data) >= 48 /\ DirtyBit(data) = 1 /\ HasEofRecord(data))
      => LET e == EofRecordStart(data)
         IN  /\ DirtyBit(RepairedCopy) = 0
             /\ U32(RepairedCopy, 20) = U32(data, e + 24)
             /\ U32(RepairedCopy, 24) = U32(data, e + 28)
             /\ U32(RepairedCopy, 28) = U32(data, e + 32)

(* C7 amended: the repaired copy of a dirty buffer holding an EOF record  *)
(* has the dirty bit cleared, its end offset is the position right behind *)
(* the EOF record (record start + 40), and its current and oldest record   *)
(* numbers equal those fields of the EOF record.                           *)
C7_EofRepair ==
    (Returned /\ Len(data) >= 48 /\ DirtyBit(data) = 1 /\ HasEofRecord(data))
      => LET e == EofRecordStart(data)
         IN  /\ DirtyBit(RepairedCopy) = 0
             /\ U32(RepairedCopy, 20) = e + 40
             /\ U32(RepairedCopy, 24) = U32(data, e + 28)
             /\ U32(RepairedCopy, 28) = U32(data, e + 32)

C7_Witness ==
    /\ Returned
    /\ Len(data) >= 48
    /\ DirtyBit(data) = 1
    /\ HasEofRecord(data)
    /\ U32(data, EofRecordStart(data) + 24) # EofRecordStart(data) + 40
    /\ U32(RepairedCopy, 20) = EofRecordStart(data) + 40
    /\ U32(RepairedCopy, 24) = 7
    /\ U32(data, 24) # 7

(* C8: whatever the output_file argument and whether the call returns or  *)
(* raises, the input file exists afterwards with its original bytes.      *)
C8_SourceUntouched ==
    rcall # None =>
        /\ files[InputPath].exists
        /\ files[InputPath].content = data

(* C9 as stated: repairing a buffer whose dirty bit is clear leaves every *)
(* header field as it is in the source.                                    *)
C9_CleanHeaderUnchanged ==
    (Returned /\ Len(data) >= 48 /\ DirtyBit(data) = 0)
      => Slice(RepairedCopy, 0, 48) = Slice(data, 0, 48)

(* C9 amended: repairing a buffer whose dirty bit is clear leaves every   *)
(* header field as it is in the source, except that end offset, current   *)
(* and oldest record number are rewritten when the buffer contains the    *)
(* EOF pattern (from an EOF record: start + 40 and its two record number  *)
(* fields); without the pattern the whole header is unchanged.            *)
C9_CleanRepair ==
    (Returned /\ Len(data) >= 48 /\ DirtyBit(data) = 0)
      => /\ Slice(RepairedCopy, 0, 20) = Slice(data, 0, 20)
         /\ Slice(RepairedCopy, 32, 48) = Slice(data, 32, 48)
         /\ EofPatternAt(data) = {}
              => Slice(RepairedCopy, 0, 48) = Slice(data, 0, 48)
         /\ HasEofRecord(data)
              => /\ U32(RepairedCopy, 20) = EofRecordStart(data) + 40
                 /\ U32(RepairedCopy, 24) = U32(data, EofRecordStart(data) + 28)
                 /\ U32(RepairedCopy, 28) = U32(data, EofRecordStart(data) + 32)

C9_Witness ==
    /\ Returned
    /\ Len(data) >= 48
    /\ DirtyBit(data) = 0
    /\ U32(data, 36) = 2
    /\ HasEofRecord(data)
    /\ Slice(RepairedCopy, 20, 32) # Slice(data, 20, 32)

-----------------------------------------------------------------------------
(* Termination of the walk, checked under Spec *)

(* C11: every step of either walker after which its loop continues leaves *)
(* the cursor strictly greater than before and not beyond the end of the  *)
(* buffer, so the walk ends after at most Len(data) steps; a step that    *)
(* does not advance the cursor leaves the loop.                           *)
C11_CursorAdvances ==
    [][/\ (pc = "loop" /\ pc' = "loop" /\ parseVars' # parseVars)
            => (offset' > offset /\ offset' <= Len(data))
       /\ (pc = "loop" /\ offset' <= offset /\ parseVars' # parseVars)
            => pc' = "done"
       /\ (ipc = "loop" /\ ipc' = "loop" /\ iterVars' # iterVars)
            => (ioffset' > ioffset /\ ioffset' <= Len(data))
       /\ (ipc = "loop" /\ ioffset' <= ioffset /\ iterVars' # iterVars)
            => ipc' = "done"]_vars

(* a walk that decoded a record, skipped an invalid size and stands at a  *)
(* frame found by a resynchronization jump to an unaligned position       *)
C11_Witness ==
    /\ pc = "loop"
    /\ Len(records) >= 1
    /\ Len(errors) >= 1
    /\ errors[1].msg = "Invalid record size"
    /\ offset % 4 # 0
    /\ offset > U32(data, 16)
    /\ WhileCond(data, offset)
    /\ SigAt(data, offset) = EVT_SIGNATURE

-----------------------------------------------------------------------------
(* parse_evt_file when field extraction fails.  The try block of          *)
(* _parse_event_record (lines 261-332) is guarded by `except Exception`;  *)
(* an exception raised inside it, such as MemoryError while the fields    *)
(* are built, is an outcome the environment decides.                      *)

(* variant: the failed frame does not advance the cursor *)
ExtractionFailedResult_stuck(d, off) ==
    [record |-> None, next_offset |-> off,
     error |-> Err("Error parsing record", off)]

(* variant: the failed frame is dropped without an error string *)
ExtractionFailedResult_silent(d, off) ==
    [record |-> None, next_offset |-> off + U32(d, off), error |-> None]

(* the return value of the except branch, lines 334-339 *)
ExtractionFailedResult(d, off) ==
    [record |-> None, next_offset |-> off + U32(d, off),
     error |-> Err("Error parsing record", off)]

(* LfLe at the cursor and a frame that passes the size checks, but the   *)
(* extraction raises: the frame is counted, the error kept, the cursor    *)
(* advanced                                                               *)
ParseRecordFault ==
    /\ pc = "loop"
    /\ WhileCond(data, offset)
    /\ SigAt(data, offset) # Slice(EVT_EOF_SIGNATURE, 0, 4)
    /\ SigAt(data, offset) = EVT_SIGNATURE
    /\ ~InvalidSize(U32(data, offset))
    /\ offset + U32(data, offset) <= Len(data)
    /\ LET r == ExtractionFailedResult(data, offset)
           errs == IF r.error # None THEN Append(errors, r.error)
                   ELSE errors
           recs == IF r.record # None THEN Append(records, r.record)
                   ELSE records
           sps == IF r.record # None
                  THEN Append(spans, Span(offset, U32(data, offset)))
                  ELSE spans
       IN  IF r.next_offset <= offset
           THEN /\ pc' = "done"
                /\ result' = ParseResult(_parse_header(data), recs,
                                         record_count + 1, errs)
                /\ record_count' = record_count + 1
                /\ errors' = errs
                /\ records' = recs
                /\ spans' = sps
                /\ UNCHANGED offset
           ELSE /\ offset' = r.next_offset
                /\ record_count' = record_count + 1
                /\ errors' = errs
                /\ records' = recs
                /\ spans' = sps
                /\ UNCHANGED <<pc, result>>
    /\ UNCHANGED <<data, iterVars, repairVars,
                 fieldVars, convVars, batchVars>>

FaultInputs ==
    {Header(EVT_SIGNATURE, 48, 0, 0, 0, 0) \o b : b \in Bodies(MaxChunks)}
    \cup BadInputs

InitFault ==
    /\ data \in FaultInputs
    /\ IdleParse
    /\ IdleRepair
    /\ IdleFields
    /\ IdleConvert
    /\ IdleBatch
    /\ files = [p \in Paths |-> IF p = InputPath THEN File(data) ELSE Absent]

NextFault ==
    \/ ParseStart
    \/ ParseExit
    \/ ParseEof
    \/ ParseResync
    \/ ParseRecord
    \/ ParseRecordFault

SpecFault == InitFault /\ [][NextFault]_vars

(* this step appended the error string of a failed extraction *)
ExtractionFailedStep ==
    /\ Len(errors') = Len(errors) + 1
    /\ errors'[Len(errors')].msg = "Error parsing record"

(* C12: once the header is accepted parse_evt_file does not raise: the    *)
(* walk goes on or returns an outcome holding the records and the error   *)
(* strings collected; each step adds at most one error string, for the    *)
(* frame at the cursor; a failed field extraction adds its error string   *)
(* and still moves the cursor by the record's size.                       *)
C12_NeverRaises ==
    [][/\ (pc = "start" /\ ~HeaderRejected(data)) => pc' # "raised"
       /\ pc = "loop" => pc' \in {"loop", "done"}
       /\ (pc = "loop" /\ pc' = "done")
            => /\ result'.kind = "ParseResult"
               /\ result'.records = records'
               /\ result'.errors = errors'
       /\ (pc = "loop" /\ errors' # errors)
            => /\ Len(errors') = Len(errors) + 1
               /\ SubSeq(errors', 1, Len(errors)) = errors
               /\ errors'[Len(errors')].offset = offset
       /\ (pc = "loop" /\ ExtractionFailedStep)
            => /\ pc' = "loop"
               /\ records' = records
               /\ offset' = offset + U32(data, offset)]_vars

(* the first frame failed in extraction and a later frame was decoded *)
C12_Witness ==
    /\ pc = "done"
    /\ Len(result.errors) >= 2
    /\ result.errors[1].msg = "Error parsing record"
    /\ result.errors[1].offset = 48
    /\ result.errors[2].msg = "Invalid record size"
    /\ Len(result.records) >= 1

(* C13: every frame handed to record decoding is counted and gives        *)
(* exactly one record or exactly one error string: in every outcome       *)
(* total_records = valid_records + len(errors) and parse_errors =         *)
(* len(errors).                                                           *)
C13_NothingDropped ==
    /\ pc = "loop" => record_count = Len(records) + Len(errors)
    /\ pc = "done" =>
        /\ result.total_records = result.valid_records + Len(result.errors)
        /\ result.valid_records = Len(result.records)
        /\ result.parse_errors = Len(result.errors)

C13_Witness ==
    /\ pc = "done"
    /\ result.total_records = 3
    /\ result.valid_records = 1
    /\ result.parse_errors = 2
    /\ \E i \in 1 .. 2 : result.errors[i].msg = "Error parsing record"
    /\ \E i \in 1 .. 2 : result.errors[i].msg = "Record extends past end of file"

-----------------------------------------------------------------------------
(* The field decoders _read_null_terminated_utf16 and _parse_sid called *)
(* on their own                                                         *)

MaxUnits == 3
MaxSubAuth == 2

(* Inputs of the field decoders *)

CodeUnitAlphabet == {0, 97, 98, 99, 256, 55296, 56320}

RECURSIVE UnitSeqs(_)
UnitSeqs(n) ==
    IF n = 0 THEN {<< >>}
    ELSE UnitSeqs(n - 1)
         \cup {Append(u, c) : u \in {v \in UnitSeqs(n - 1) : Len(v) = n - 1},
                              c \in CodeUnitAlphabet}

RECURSIVE encode_utf16le(_)
encode_utf16le(units) ==
    IF units = << >> THEN << >>
    ELSE <<units[1] % 256, units[1] \div 256>> \o encode_utf16le(Tail(units))

Utf16Inputs ==
    {[kind |-> "utf16",
      data |-> Garbage(o) \o encode_utf16le(u),
      offset |-> o,
      max_len |-> m] :
        u \in UnitSeqs(MaxUnits + 1), o \in {0, 2}, m \in {4, DEFAULT_MAX_LEN}}

RECURSIVE SubAuthSeqs(_)
SubAuthSeqs(n) ==
    IF n = 0 THEN {<< >>}
    ELSE SubAuthSeqs(n - 1)
         \cup {Append(u, c) : u \in {v \in SubAuthSeqs(n - 1) : Len(v) = n - 1},
                              c \in {21, 42, 65537}}

RECURSIVE SubAuthBytes(_)
SubAuthBytes(subs) ==
    IF subs = << >> THEN << >>
    ELSE ToBytes4(subs[1]) \o SubAuthBytes(Tail(subs))

(* revision, declared count, 6-byte big-endian authority, sub-authorities *)
SidBytes(rev, count, auth, subs) ==
    <<rev, count, 0, 0, auth \div 16777216, (auth \div 65536) % 256,
      (auth \div 256) % 256, auth % 256>> \o SubAuthBytes(subs)

SidInputs ==
    {[kind |-> "sid", data |-> SidBytes(rev, count, auth, subs) \o extra] :
        rev \in {1, 2}, count \in 0 .. MaxSubAuth, auth \in {5, 261},
        subs \in SubAuthSeqs(MaxSubAuth), extra \in {<< >>, <<7>>}}
    \cup {[kind |-> "sid", data |-> d] : d \in {<< >>, <<1, 0, 0, 0, 0, 0, 0>>}}

FieldInputs == Utf16Inputs \cup SidInputs

Returned_value(v) == [kind |-> "returned", value |-> v]

ReadUtf16 ==
    /\ fin # None
    /\ fin.kind = "utf16"
    /\ fout = None
    /\ fout' = Returned_value(
                   _read_null_terminated_utf16(fin.data, fin.offset, fin.max_len))
    /\ UNCHANGED <<data, parseVars, iterVars, repairVars, fin, convVars,
                   batchVars>>

ParseSid ==
    /\ fin # None
    /\ fin.kind = "sid"
    /\ fout = None
    /\ fout' = Returned_value(_parse_sid(fin.data))
    /\ UNCHANGED <<data, parseVars, iterVars, repairVars, fin, convVars,
                   batchVars>>

InitFields ==
    /\ data = << >>
    /\ IdleParse
    /\ IdleRepair
    /\ files = << >>
    /\ fin \in FieldInputs
    /\ fout = None
    /\ IdleConvert
    /\ IdleBatch

NextFields ==
    \/ ReadUtf16
    \/ ParseSid

SpecFields == InitFields /\ [][NextFields]_vars

-----------------------------------------------------------------------------
(* Claims about the field decoders *)

(* "-<sub_i>" for each sub-authority in order *)
RECURSIVE DashedSubAuths(_)
DashedSubAuths(subs) ==
    IF subs = << >> THEN ""
    ELSE "-" \o ToString(subs[1]) \o DashedSubAuths(Tail(subs))

(* the sub-authorities the bytes of a SID declare *)
DeclaredSubAuths(d) == [i \in 1 .. d[2] |-> U32(d, 8 + (i - 1) * 4)]

CanonicalSid(d) ==
    "S-" \o ToString(d[1]) \o "-" \o ToString(FromBytesBE(Slice(d, 2, 8)))
    \o DashedSubAuths(DeclaredSubAuths(d))

SidParsed == fin # None /\ fin.kind = "sid" /\ fout # None

(* C14: for every revision, authority and N >= 0 sub-authorities held in   *)
(* at least 8 + 4N bytes, SID parsing returns "S-<revision>-<authority>"   *)
(* followed by "-<sub_i>" for each sub-authority in order and nothing      *)
(* else.  The code leaves a trailing dash when N = 0.                      *)
C14_CanonicalSid ==
    (SidParsed /\ Len(fin.data) >= 8 /\ Len(fin.data) >= 8 + 4 * fin.data[2])
        => fout.value = [kind |-> "str", text |-> CanonicalSid(fin.data)]

CodeUnitAt(d, off) == d[off + 1] + 256 * d[off + 2]

(* k non-zero code units at off, then a zero code unit, all inside d *)
TerminatedString(d, off, k) ==
    /\ off + 2 * k + 2 <= Len(d)
    /\ \A i \in 0 .. k - 1 : CodeUnitAt(d, off + 2 * i) # 0
    /\ CodeUnitAt(d, off + 2 * k) = 0

UnitsAt(d, off, k) == [i \in 1 .. k |-> CodeUnitAt(d, off + 2 * (i - 1))]

(* every surrogate code unit is one half of a pair *)
WellFormedUtf16(u) ==
    \A i \in 1 .. Len(u) :
        /\ IsHighSurrogate(u[i]) => (i < Len(u) /\ IsLowSurrogate(u[i + 1]))
        /\ IsLowSurrogate(u[i]) => (i > 1 /\ IsHighSurrogate(u[i - 1]))

Utf16Read == fin # None /\ fin.kind = "utf16" /\ fout # None

(* C15: a well-formed UTF-16LE string of k non-zero code units followed    *)
(* by a zero code unit, inside the data and within the scan cap, read at   *)
(* offset o, comes back as exactly those k code units together with the    *)
(* next cursor o + 2k + 2.                                                 *)
C15_TerminatedRead ==
    Utf16Read =>
        \A k \in 0 .. MaxUnits + 1 :
            (/\ TerminatedString(fin.data, fin.offset, k)
             /\ 2 * k <= fin.max_len
             /\ WellFormedUtf16(UnitsAt(fin.data, fin.offset, k)))
                => /\ fout.value.string = UnitsAt(fin.data, fin.offset, k)
                   /\ fout.value.next = fin.offset + 2 * k + 2

(* "abc" and its terminator at offset 0 give ("abc", 8) *)
C15_Witness ==
    /\ Utf16Read
    /\ fin.data = <<97, 0, 98, 0, 99, 0, 0, 0>>
    /\ fin.offset = 0
    /\ fin.max_len = DEFAULT_MAX_LEN
    /\ fout.value = [string |-> <<97, 98, 99>>, next |-> 8]

-----------------------------------------------------------------------------
(* converter.py: convert_evt_to_evtx.  The file system is `disk`, a        *)
(* function from paths to File(..), Directory or Absent; `env` is the host *)
(* (platform.system() and whether wevtutil is on the PATH).  The external  *)
(* tool, the repair's I/O and the removal of the temp file are outcomes    *)
(* the environment decides.                                                *)

Directory == [exists |-> TRUE, content |-> << >>, is_dir |-> TRUE]
is_dir(f) == "is_dir" \in DOMAIN f

CurrentDir == "."
OutDir == "out"
MissingDir == "nodir"
NotesPath == "notes.txt"
GivenOutput == "out.evtx"
OrphanOutput == "nodir/out.evtx"

(* generate_output_path(input_file, output_dir) *)
generate_output_path(input_file, output_dir) ==
    LET output_filename == Stem(input_file) \o ".evtx"
    IN  IF output_dir # "None"
        THEN output_dir \o "/" \o output_filename
        ELSE output_filename

SourcePaths == {EvtName(i) : i \in 1 .. MaxFiles} \cup {NotesPath}

DiskPaths ==
    SourcePaths
    \cup {generate_output_path(p, "None") : p \in SourcePaths}
    \cup {generate_output_path(p, OutDir) : p \in SourcePaths}
    \cup {TempPathFor(p) : p \in SourcePaths}
    \cup {GivenOutput, OrphanOutput, CurrentDir, OutDir, MissingDir}

(* Path.parent *)
Parent(p) ==
    IF p \in {generate_output_path(q, OutDir) : q \in SourcePaths} THEN OutDir
    ELSE IF p = OrphanOutput THEN MissingDir
    ELSE CurrentDir

(* contents of an input file *)
CleanLog == Header(EVT_SIGNATURE, 48, 48, 1, 1, 0) \o EofRec(48, 48, 1, 1)
DirtyLog == Header(EVT_SIGNATURE, 48, 48, 1, 1, 1) \o EofRec(48, 48, 2, 1)
ShortLog == <<0, 0, 0, 0>> \o EVT_SIGNATURE
NotEvtLog == Garbage(48)
TinyFile == Garbage(4)
ExistingEvtx == <<101, 120, 105, 115, 116, 105, 110, 103>>
WrittenEvtx == <<69, 108, 102, 70, 105, 108, 101, 0>>

(* check_platform() and check_wevtutil_available() *)
Hosts ==
    {[platform |-> "Windows", wevtutil |-> TRUE],
     [platform |-> "Windows", wevtutil |-> FALSE],
     [platform |-> "Linux", wevtutil |-> FALSE]}

check_platform(e) == e.platform = "Windows"
check_wevtutil_available(e) == e.wevtutil
ChecksRaise(e) ==
    IF ~check_platform(e) THEN [kind |-> "PlatformNotSupportedError"]
    ELSE IF ~check_wevtutil_available(e) THEN [kind |-> "WevtutilNotFoundError"]
    ELSE None

(* validate_legacy_evt_signature: "ok" or the reason of the error *)
validate_legacy_evt_signature(content) ==
    IF Len(Slice(content, 0, 8)) < 8 THEN "Input file is too small"
    ELSE IF Slice(content, 4, 8) # EVT_SIGNATURE THEN "missing signature"
    ELSE "ok"

(* validate_evt_file: "ok" or the reason of the FileValidationError *)
validate_evt_file(fs, input_file, output_file) ==
    IF ~fs[input_file].exists THEN "Input file does not exist"
    ELSE IF is_dir(fs[input_file]) THEN "Input path is not a file"
    ELSE IF Suffix(input_file) # ".evt"
    THEN "Input file must have .evt extension"
    ELSE IF validate_legacy_evt_signature(fs[input_file].content) # "ok"
    THEN validate_legacy_evt_signature(fs[input_file].content)
    ELSE IF ~fs[Parent(output_file)].exists
    THEN "Output directory does not exist"
    ELSE IF fs[output_file].exists /\ is_dir(fs[output_file])
    THEN "Output path is a directory"
    ELSE "ok"

(* variant: the wrapped bit is taken for the dirty bit *)
is_evt_dirty_wrapped_bit(content) ==
    LET flags_bytes == Slice(content, EVT_FLAGS_OFFSET, EVT_FLAGS_OFFSET + 4)
    IN  IF Len(flags_bytes) < 4 THEN FALSE
        ELSE (FromBytesLE(flags_bytes) \div 2) % 2 = 1

(* is_evt_dirty, with FileValidationError (fewer than 4 flag bytes) taken *)
(* as not dirty, as convert_evt_to_evtx does                              *)
is_evt_dirty(content) ==
    LET flags_bytes == Slice(content, EVT_FLAGS_OFFSET, EVT_FLAGS_OFFSET + 4)
    IN  IF Len(flags_bytes) < 4 THEN FALSE
        ELSE FromBytesLE(flags_bytes) % 2 = EVT_FLAG_DIRTY

OutputPathOf(args) ==
    IF args.output_file # "None" THEN args.output_file
    ELSE generate_output_path(args.input_file, "None")

ConversionResult(status, args, error_message) ==
    [status |-> status,
     input_file |-> args.input_file,
     output_file |-> OutputPathOf(args),
     error_message |-> error_message]

(* "if output_path.exists() and not overwrite" *)
ShouldSkip_on_overwrite(fs, output_path, overwrite) ==
    fs[output_path].exists /\ overwrite

ShouldSkip(fs, output_path, overwrite) ==
    fs[output_path].exists /\ ~overwrite

(* the finally clause: unlink of the temp file, an OSError being ignored *)
Cleanup_skipped(fs, temp, unlink_ok) ==
    fs

Cleanup(fs, temp, unlink_ok) ==
    IF temp # None /\ fs[temp.path].exists /\ unlink_ok
    THEN [fs EXCEPT ![temp.path] = Absent]
    ELSE fs

(* what the finally clause did *)
CleanupOutcome(fs, temp, unlink_ok) ==
    IF temp = None \/ ~fs[temp.path].exists THEN "nothing to remove"
    ELSE IF unlink_ok THEN "removed"
    ELSE "OSError ignored"

(* how subprocess.run(command, timeout=.., check=True) ends *)
ToolOutcomes ==
    {"exit 0, output written", "exit 0, nothing written", "non-zero exit",
     "timeout", "unexpected error"}

(* the result the code builds after subprocess.run ended with `outcome` *)
ResultAfterTool(fs, args, outcome) ==
    IF outcome \in {"exit 0, output written", "exit 0, nothing written"}
    THEN IF ~fs[OutputPathOf(args)].exists
         THEN ConversionResult("FAILED", args,
                               "Output file was not created by wevtutil")
         ELSE ConversionResult("SUCCESS", args, "None")
    ELSE IF outcome = "timeout"
    THEN ConversionResult("FAILED", args, "Conversion timed out")
    ELSE IF outcome = "non-zero exit"
    THEN ConversionResult("FAILED", args, "wevtutil failed with return code")
    ELSE ConversionResult("FAILED", args, "Unexpected error")

(* what no step of convert_evt_to_evtx touches *)
convFrame == <<data, parseVars, iterVars, repairVars, fieldVars, batchVars,
               env, cargs>>

Return_result(r) ==
    /\ cresult' = r
    /\ cpc' = "returned"

(* lines 149-150: a check raises *)
ConvertRaise ==
    /\ cpc = "call"
    /\ ChecksRaise(env) # None
    /\ cresult' = ChecksRaise(env)
    /\ cpc' = "raised"
    /\ UNCHANGED <<convFrame, disk, temp_file, effective_input, tool_calls,
                   cleanup>>

(* lines 153-162: validation fails, a FAILED result *)
ConvertReject ==
    /\ cpc = "call"
    /\ ChecksRaise(env) = None
    /\ LET v == validate_evt_file(disk, cargs.input_file, OutputPathOf(cargs))
       IN  /\ v # "ok"
           /\ Return_result(ConversionResult("FAILED", cargs, v))
    /\ UNCHANGED <<convFrame, disk, temp_file, effective_input, tool_calls,
                   cleanup>>

Validated ==
    /\ cpc = "call"
    /\ ChecksRaise(env) = None
    /\ validate_evt_file(disk, cargs.input_file, OutputPathOf(cargs)) = "ok"

(* lines 165-171: the output exists and is not to be overwritten *)
ConvertSkip ==
    /\ Validated
    /\ ShouldSkip(disk, OutputPathOf(cargs), cargs.overwrite)
    /\ Return_result(ConversionResult("SKIPPED", cargs,
                         "Output file exists and overwrite is disabled"))
    /\ UNCHANGED <<convFrame, disk, temp_file, effective_input, tool_calls,
                   cleanup>>

(* lines 174-180, the input is not dirty: the tool will read the input *)
ConvertClean ==
    /\ Validated
    /\ ~ShouldSkip(disk, OutputPathOf(cargs), cargs.overwrite)
    /\ ~is_evt_dirty(disk[cargs.input_file].content)
    /\ temp_file' = None
    /\ effective_input' = [kind |-> "Path", path |-> cargs.input_file]
    /\ cpc' = "run"
    /\ UNCHANGED <<convFrame, disk, cresult, tool_calls, cleanup>>

(* lines 182-203 with auto_repair: the repaired temp copy, or FAILED when *)
(* the repair raises                                                      *)
ConvertRepair ==
    /\ Validated
    /\ ~ShouldSkip(disk, OutputPathOf(cargs), cargs.overwrite)
    /\ is_evt_dirty(disk[cargs.input_file].content)
    /\ cargs.auto_repair
    /\ \E io_ok \in BOOLEAN :
          LET r == repair_dirty_evt(disk, cargs.input_file, "None", io_ok)
          IN  /\ disk' = r.files
              /\ IF r.ret.kind = "Path"
                 THEN /\ temp_file' = r.ret
                      /\ effective_input' = r.ret
                      /\ cpc' = "run"
                      /\ UNCHANGED cresult
                 ELSE /\ Return_result(ConversionResult("FAILED", cargs,
                                           "Cannot repair"))
                      /\ UNCHANGED <<temp_file, effective_input>>
    /\ UNCHANGED <<convFrame, tool_calls, cleanup>>

(* lines 186-195: dirty and auto_repair off *)
ConvertDirtyRefused ==
    /\ Validated
    /\ ~ShouldSkip(disk, OutputPathOf(cargs), cargs.overwrite)
    /\ is_evt_dirty(disk[cargs.input_file].content)
    /\ ~cargs.auto_repair
    /\ Return_result(ConversionResult("FAILED", cargs,
                         "EVT file has DIRTY flag set"))
    /\ UNCHANGED <<convFrame, disk, temp_file, effective_input, tool_calls,
                   cleanup>>

(* lines 205-273: wevtutil epl <effective_input> <output_path> /lf:true and *)
(* the result built from how it ended; the result is returned once the     *)
(* finally clause has run                                                  *)
RunTool ==
    /\ cpc = "run"
    /\ \E outcome \in ToolOutcomes :
          LET written == IF outcome = "exit 0, output written"
                         THEN [disk EXCEPT ![OutputPathOf(cargs)] =
                                               File(WrittenEvtx)]
                         ELSE disk
          IN  /\ disk' = written
              /\ tool_calls' =
                     Append(tool_calls,
                            [source |-> effective_input.path,
                             target |-> OutputPathOf(cargs),
                             source_content |->
                                 disk[effective_input.path].content,
                             outcome |-> outcome])
              /\ cresult' = ResultAfterTool(written, cargs, outcome)
    /\ cpc' = "finally"
    /\ UNCHANGED <<convFrame, temp_file, effective_input, cleanup>>

(* lines 275-281: the finally clause, then the return *)
ConvertFinally ==
    /\ cpc = "finally"
    /\ \E unlink_ok \in BOOLEAN :
          /\ disk' = Cleanup(disk, temp_file, unlink_ok)
          /\ cleanup' = CleanupOutcome(disk, temp_file, unlink_ok)
    /\ cpc' = "returned"
    /\ UNCHANGED <<convFrame, temp_file, effective_input, cresult, tool_calls>>

ConvertStep ==
    \/ ConvertReject
    \/ ConvertSkip
    \/ ConvertClean
    \/ ConvertRepair
    \/ ConvertDirtyRefused
    \/ RunTool
    \/ ConvertFinally

(* Inputs of a single conversion *)

InputContents ==
    {Absent, Directory, File(CleanLog), File(DirtyLog), File(ShortLog),
     File(NotEvtLog), File(TinyFile)}

OutputStates == {Absent, Directory, File(ExistingEvtx)}

ConvertArgs ==
    [input_file : {EvtName(1), NotesPath},
     output_file : {"None", GivenOutput, OrphanOutput},
     overwrite : BOOLEAN,
     auto_repair : BOOLEAN]

InitialDisk(input, output_path, output) ==
    [p \in DiskPaths |->
        IF p = EvtName(1) THEN input
        ELSE IF p = NotesPath THEN File(CleanLog)
        ELSE IF p = output_path /\ Parent(p) # MissingDir THEN output
        ELSE IF p = CurrentDir THEN Directory
        ELSE Absent]

InitConvert ==
    /\ data = << >>
    /\ IdleParse
    /\ IdleRepair
    /\ files = << >>
    /\ IdleFields
    /\ IdleBatch
    /\ env \in Hosts
    /\ cargs \in ConvertArgs
    /\ \E input \in InputContents, output \in OutputStates :
          disk = InitialDisk(input, OutputPathOf(cargs), output)
    /\ cpc = "call"
    /\ temp_file = None
    /\ effective_input = None
    /\ cresult = None
    /\ tool_calls = << >>
    /\ cleanup = None

NextConvert ==
    \/ ConvertRaise
    \/ ConvertReject
    \/ ConvertSkip
    \/ ConvertClean
    \/ ConvertRepair
    \/ ConvertDirtyRefused
    \/ RunTool
    \/ ConvertFinally

SpecConvert == InitConvert /\ [][NextConvert]_vars

-----------------------------------------------------------------------------
(* Claims about convert_evt_to_evtx *)

(* an existing regular file with the .evt suffix and the signature at 4 *)
ValidInput(fs, input_file) ==
    /\ fs[input_file].exists
    /\ ~is_dir(fs[input_file])
    /\ Suffix(input_file) = ".evt"
    /\ Len(fs[input_file].content) >= 8
    /\ Slice(fs[input_file].content, 4, 8) = EVT_SIGNATURE

SkipCase ==
    /\ cpc = "call"
    /\ ChecksRaise(env) = None
    /\ ValidInput(disk, cargs.input_file)
    /\ disk[OutputPathOf(cargs)].exists
    /\ ~is_dir(disk[OutputPathOf(cargs)])
    /\ ~cargs.overwrite

RepairedRun ==
    /\ cargs # None
    /\ cargs.auto_repair
    /\ temp_file # None
    /\ tool_calls # << >>
    /\ is_evt_dirty(disk[cargs.input_file].content)

(* the last tool run read a temp copy, not the input, and the copy was    *)
(* the repaired input                                                     *)
RanOnRepairedCopy ==
    LET call == tool_calls[Len(tool_calls)]
    IN  /\ call.source = TempPathFor(cargs.input_file)
        /\ call.source # cargs.input_file
        /\ call.source_content = Repaired(disk[cargs.input_file].content)
        /\ ~is_evt_dirty(call.source_content)

(* C17 as stated: with a dirty input and auto_repair the tool runs on a   *)
(* temporary repaired copy, and however the tool ended the copy has been  *)
(* deleted when the result is returned.                                   *)
C17_TempDeleted ==
    RepairedRun =>
        /\ RanOnRepairedCopy
        /\ cpc = "returned" => ~disk[temp_file.path].exists

(* C17, amended: the tool runs on a temporary repaired copy and on every  *)
(* finishing path the finally clause has tried to remove it: the copy is  *)
(* gone unless the unlink itself failed with an OSError, which is ignored.*)
C17_TempCleanup ==
    RepairedRun =>
        /\ RanOnRepairedCopy
        /\ cpc = "returned" =>
              /\ cleanup \in {"removed", "OSError ignored"}
              /\ cleanup = "removed" => ~disk[temp_file.path].exists
              /\ disk[temp_file.path].exists => cleanup = "OSError ignored"

(* the tool timed out on the repaired copy and the copy is gone *)
C17_Witness ==
    /\ RepairedRun
    /\ cpc = "returned"
    /\ tool_calls[1].outcome = "timeout"
    /\ tool_calls[1].source = TempPathFor(cargs.input_file)
    /\ cresult.status = "FAILED"
    /\ cleanup = "removed"
    /\ ~disk[temp_file.path].exists

-----------------------------------------------------------------------------
(* converter.py: batch_convert, called by cli.py: convert_batch.  Each     *)
(* iteration of the loop calls convert_evt_to_evtx, whose steps are the    *)
(* actions above; the loop goes on when that call has returned.            *)

(* find_evt_files(directory): the sorted list, or the reason of the error; *)
(* the .evt files all lie in the current directory                         *)
find_evt_files(fs, directory) ==
    IF ~fs[directory].exists
    THEN [kind |-> "FileValidationError", msg |-> "Directory does not exist"]
    ELSE IF ~is_dir(fs[directory])
    THEN [kind |-> "FileValidationError", msg |-> "Path is not a directory"]
    ELSE [kind |-> "list",
          files |-> IF directory = CurrentDir
                    THEN SelectSeq(EvtNames, LAMBDA p : fs[p].exists)
                    ELSE << >>]

(* file_output_dir.mkdir(parents=True, exist_ok=True) *)
mkdir(fs, dir) == [fs EXCEPT ![dir] = Directory]

(* the arguments convert_batch passes to batch_convert *)
BatchArgs(cli) ==
    [source_dir |-> cli.batch_dir,
     output_dir |-> cli.output_dir,
     overwrite |-> cli.force,
     continue_on_error |-> ~cli.stop_on_error,
     progress_callback |-> IF cli.quiet THEN "None" ELSE "progress_bar",
     auto_repair |-> cli.auto_repair]

BatchConversionSummary(total, s, f, k, rs) ==
    [kind |-> "BatchConversionSummary", total |-> total, successful |-> s,
     failed |-> f, skipped |-> k, results |-> rs]

(* the locals of a finished call of convert_evt_to_evtx are gone *)
ConvertCallOver ==
    /\ cpc' = "idle"
    /\ cargs' = None
    /\ temp_file' = None
    /\ effective_input' = None
    /\ cresult' = None
    /\ cleanup' = None

batchFrame == <<data, parseVars, iterVars, repairVars, fieldVars, env, bargs,
                exit_code>>

(* lines 342-347: a check or find_evt_files raises *)
BatchRaise ==
    /\ bpc = "call"
    /\ \/ /\ ChecksRaise(env) # None
          /\ summary' = ChecksRaise(env)
       \/ /\ ChecksRaise(env) = None
          /\ find_evt_files(disk, bargs.source_dir).kind # "list"
          /\ summary' = find_evt_files(disk, bargs.source_dir)
    /\ bpc' = "raised"
    /\ UNCHANGED <<batchFrame, disk, cpc, cargs, temp_file, effective_input,
                   cresult, tool_calls, cleanup, evt_files, index, successful,
                   failed, skipped, results, callbacks>>

(* lines 342-356: the files are found and the counters initialised *)
BatchStart ==
    /\ bpc = "call"
    /\ ChecksRaise(env) = None
    /\ find_evt_files(disk, bargs.source_dir).kind = "list"
    /\ evt_files' = find_evt_files(disk, bargs.source_dir).files
    /\ results' = << >>
    /\ successful' = 0
    /\ failed' = 0
    /\ skipped' = 0
    /\ index' = 0
    /\ bpc' = "loop"
    /\ UNCHANGED <<batchFrame, convVars, callbacks, summary>>

(* lines 358-388: the next file: progress callback, output path, and the *)
(* call of convert_evt_to_evtx                                           *)
BatchNextFile ==
    /\ bpc = "loop"
    /\ index < Len(evt_files)
    /\ index' = index + 1
    /\ LET evt_file == evt_files[index + 1]
       IN  /\ callbacks' =
                  IF bargs.progress_callback # "None"
                  THEN Append(callbacks, [current |-> index + 1,
                                          total |-> Len(evt_files),
                                          file |-> evt_file])
                  ELSE callbacks
           /\ disk' = IF bargs.output_dir # "None"
                      THEN mkdir(disk, bargs.output_dir)
                      ELSE disk
           /\ cargs' = [input_file |-> evt_file,
                        output_file |->
                            IF bargs.output_dir # "None"
                            THEN generate_output_path(evt_file,
                                                      bargs.output_dir)
                            ELSE "None",
                        overwrite |-> bargs.overwrite,
                        auto_repair |-> bargs.auto_repair]
    /\ cpc' = "call"
    /\ bpc' = "converting"
    /\ UNCHANGED <<batchFrame, temp_file, effective_input, cresult,
                   tool_calls, cleanup, evt_files, successful, failed,
                   skipped, results, summary>>

(* "if not continue_on_error" under the FAILED branch *)
StopsBatch_never(status, continue_on_error) ==
    FALSE

StopsBatch(status, continue_on_error) ==
    status = "FAILED" /\ ~continue_on_error

(* lines 390-403: the counters, the ConversionError or the append *)
BatchCount ==
    /\ bpc = "converting"
    /\ cpc = "returned"
    /\ successful' = successful + (IF cresult.status = "SUCCESS" THEN 1 ELSE 0)
    /\ failed' = failed + (IF cresult.status = "FAILED" THEN 1 ELSE 0)
    /\ skipped' = skipped + (IF cresult.status = "SKIPPED" THEN 1 ELSE 0)
    /\ IF StopsBatch(cresult.status, bargs.continue_on_error)
       THEN /\ summary' = [kind |-> "ConversionError",
                           file |-> cresult.input_file]
            /\ bpc' = "raised"
            /\ UNCHANGED results
       ELSE /\ results' = Append(results, cresult)
            /\ bpc' = "loop"
            /\ UNCHANGED summary
    /\ ConvertCallOver
    /\ UNCHANGED <<batchFrame, disk, tool_calls, evt_files, index, callbacks>>

(* lines 405-417: the summary *)
BatchReturn ==
    /\ bpc = "loop"
    /\ index = Len(evt_files)
    /\ summary' = BatchConversionSummary(Len(evt_files), successful, failed,
                                         skipped, results)
    /\ bpc' = "returned"
    /\ UNCHANGED <<batchFrame, convVars, evt_files, index, successful, failed,
                   skipped, results, callbacks>>

(* cli.py lines 233-266: the exit code of convert_batch *)
ExitCode_partial_is_failure(s) ==
    IF s.kind # "BatchConversionSummary" THEN 1
    ELSE IF s.total = 0 THEN 1
    ELSE IF s.failed = 0 /\ s.skipped = 0 THEN 0
    ELSE 1

ExitCode(s) ==
    IF s.kind # "BatchConversionSummary" THEN 1
    ELSE IF s.total = 0 THEN 1
    ELSE IF s.failed = 0 /\ s.skipped = 0 THEN 0
    ELSE IF s.successful = 0 THEN 1
    ELSE 2

CliExit ==
    /\ bpc \in {"returned", "raised"}
    /\ exit_code = None
    /\ exit_code' = [kind |-> "int", value |-> ExitCode(summary)]
    /\ UNCHANGED <<data, parseVars, iterVars, repairVars, fieldVars, convVars,
                   bpc, bargs, evt_files, index, successful, failed, skipped,
                   results, callbacks, summary>>

(* Inputs of a batch *)

CliArgs ==
    [batch_dir : {CurrentDir, MissingDir, NotesPath},
     output_dir : {"None", OutDir},
     force : BOOLEAN,
     stop_on_error : BOOLEAN,
     quiet : BOOLEAN,
     auto_repair : BOOLEAN]

BatchFileContents == {Absent, File(CleanLog), File(DirtyLog), File(NotEvtLog)}

(* the source directory holds the files `inputs`; the output of file i *)
(* exists already when i is in `done`                                  *)
BatchDisk(inputs, done, output_dir) ==
    [p \in DiskPaths |->
        IF p = CurrentDir THEN Directory
        ELSE IF p = NotesPath THEN File(CleanLog)
        ELSE IF p = OutDir /\ output_dir = OutDir /\ done # {} THEN Directory
        ELSE IF \E i \in 1 .. MaxFiles : p = EvtName(i)
        THEN inputs[CHOOSE i \in 1 .. MaxFiles : p = EvtName(i)]
        ELSE IF \E i \in done :
                   p = generate_output_path(EvtName(i), output_dir)
        THEN File(ExistingEvtx)
        ELSE Absent]

InitBatch ==
    /\ data = << >>
    /\ IdleParse
    /\ IdleRepair
    /\ files = << >>
    /\ IdleFields
    /\ \E cli \in CliArgs, host \in Hosts,
          inputs \in [1 .. MaxFiles -> BatchFileContents],
          done \in {{}} \cup {{i} : i \in 1 .. MaxFiles} :
          /\ \/ ChecksRaise(host) = None /\ cli.batch_dir = CurrentDir
             \/ /\ inputs = [i \in 1 .. MaxFiles |-> File(CleanLog)]
                /\ done = {}
                /\ ~cli.force /\ ~cli.quiet /\ cli.auto_repair
                /\ cli.output_dir = "None"
          /\ env = host
          /\ bargs = BatchArgs(cli)
          /\ disk = BatchDisk(inputs, done, cli.output_dir)
    /\ cpc = "idle"
    /\ cargs = None
    /\ temp_file = None
    /\ effective_input = None
    /\ cresult = None
    /\ tool_calls = << >>
    /\ cleanup = None
    /\ bpc = "call"
    /\ evt_files = << >>
    /\ index = 0
    /\ successful = 0
    /\ failed = 0
    /\ skipped = 0
    /\ results = << >>
    /\ callbacks = << >>
    /\ summary = None
    /\ exit_code = None

NextBatch ==
    \/ BatchRaise
    \/ BatchStart
    \/ BatchNextFile
    \/ ConvertStep
    \/ BatchCount
    \/ BatchReturn
    \/ CliExit

SpecBatch == InitBatch /\ [][NextBatch]_vars

-----------------------------------------------------------------------------
(* Claims about batch_convert and convert_batch *)

(* the input files of the results, in the order of the results *)
ResultFiles(rs) == [i \in 1 .. Len(rs) |-> rs[i].input_file]

CallbackFiles == [i \in 1 .. Len(callbacks) |-> callbacks[i].file]

(* the number of files whose conversion has finished and been counted *)
Processed == successful + failed + skipped

(* the files found: the existing .evt files in the order of their names *)
FoundInOrder ==
    /\ \A i \in 1 .. Len(evt_files) :
          /\ disk[evt_files[i]].exists
          /\ \E n \in 1 .. MaxFiles : evt_files[i] = EvtName(n)
    /\ \A n \in 1 .. MaxFiles :
          disk[EvtName(n)].exists => \E i \in 1 .. Len(evt_files) :
                                         evt_files[i] = EvtName(n)
    /\ \A i, j \in 1 .. Len(evt_files) :
          i < j => \E m, n \in 1 .. MaxFiles :
                      /\ m < n
                      /\ evt_files[i] = EvtName(m)
                      /\ evt_files[j] = EvtName(n)

(* C18: with continue_on_error false the first FAILED result ends the     *)
(* batch with a ConversionError, and no later file of the sorted list is  *)
(* converted or passed to the progress callback; with continue_on_error   *)
(* true every found file is processed exactly once, in sorted order,      *)
(* whatever the earlier results were.                                     *)
C18_StopOrContinue ==
    /\ bpc \in {"loop", "converting", "returned", "raised"}
          /\ ChecksRaise(env) = None
          /\ bargs.source_dir = CurrentDir
        => /\ FoundInOrder
           /\ ResultFiles(results) = SubSeq(evt_files, 1, Len(results))
           /\ bargs.progress_callback # "None"
                 => CallbackFiles = SubSeq(evt_files, 1, index)
           /\ Len(tool_calls) <= index
           /\ \A c \in 1 .. Len(tool_calls) :
                 \E i \in 1 .. index :
                    tool_calls[c].target =
                        generate_output_path(evt_files[i], bargs.output_dir)
    /\ bpc \in {"loop", "converting"} /\ ~bargs.continue_on_error
        => \A i \in 1 .. Len(results) : results[i].status # "FAILED"
    /\ bpc = "raised" /\ summary.kind = "ConversionError"
        => /\ ~bargs.continue_on_error
           /\ failed = 1
           /\ index = Len(results) + 1
           /\ summary.file = evt_files[index]
           /\ \A i \in 1 .. Len(results) : results[i].status # "FAILED"
    /\ bpc = "returned"
        => /\ ResultFiles(results) = evt_files
           /\ index = Len(evt_files)
           /\ ~bargs.continue_on_error
                 => \A i \in 1 .. Len(results) : results[i].status # "FAILED"
    /\ bpc \in {"returned", "raised"} => cpc = "idle"

(* the first of two files failed in the tool and stopped the batch: the *)
(* second file was neither converted nor passed to the callback         *)
C18_Witness ==
    /\ bpc = "raised"
    /\ summary.kind = "ConversionError"
    /\ Len(evt_files) = 2
    /\ index = 1
    /\ summary.file = evt_files[1]
    /\ results = << >>
    /\ Len(callbacks) = 1
    /\ Len(tool_calls) = 1
    /\ tool_calls[1].outcome = "non-zero exit"
    /\ exit_code # None

(* with continue_on_error a failure was followed by a success *)
C18_WitnessContinue ==
    /\ bpc = "returned"
    /\ bargs.continue_on_error
    /\ Len(results) = 2
    /\ results[1].status = "FAILED"
    /\ results[2].status = "SUCCESS"

(* C19: the progress callback for a file is called after that file has    *)
(* been processed: when the i-th call (current = i, total = the number of  *)
(* files found) is made, the conversion of the i-th file has finished, so  *)
(* current is the number of files processed so far.  The code makes the    *)
(* call before it converts the file.                                       *)
C19_CallbackAfterFile ==
    [][Len(callbacks') = Len(callbacks) + 1 =>
          LET call == callbacks'[Len(callbacks')]
          IN  /\ call.current = Len(callbacks')
              /\ call.total = Len(evt_files)
              /\ call.file = evt_files[call.current]
              /\ Processed' = call.current]_vars

(* C20: for a batch that ran to completion the exit code of convert_batch *)
(* is 0 exactly when at least one file was found and every file was       *)
(* converted, 2 exactly when at least one file succeeded and at least one *)
(* failed or was skipped, and 1 in every other case.                      *)
C20_ExitCode ==
    (exit_code # None /\ bpc = "returned") =>
        LET n == Len(results)
            ok == {i \in 1 .. n : results[i].status = "SUCCESS"}
            notok == {i \in 1 .. n : results[i].status \in {"FAILED", "SKIPPED"}}
        IN  /\ n = Len(evt_files)
            /\ exit_code.value \in {0, 1, 2}
            /\ exit_code.value = 0 <=> (n >= 1 /\ ok = 1 .. n)
            /\ exit_code.value = 2 <=> (ok # {} /\ notok # {})

(* one file converted and one skipped: partial success *)
C20_Witness ==
    /\ exit_code # None
    /\ bpc = "returned"
    /\ exit_code.value = 2
    /\ Len(results) = 2
    /\ results[1].status = "SKIPPED"
    /\ results[2].status = "SUCCESS"

-----------------------------------------------------------------------------
(* Claims about the steps of the walkers *)

(* C22: the rules are applied at every step with cursor + 8 <= buffer      *)
(* length, the boundary cursor + 8 = length included: a frame with the     *)
(* record magic whose 8-byte prefix ends exactly at the end of the buffer  *)
(* is classified, as an invalid size or as a record past the end, and so   *)
(* counted with one error.  The loop of the code runs only while           *)
(* cursor + 8 < length and leaves that frame unclassified.                 *)
C22_BoundaryClassified ==
    [][(/\ pc = "loop"
        /\ offset + 8 <= Len(data)
        /\ SigAt(data, offset) = EVT_SIGNATURE
        /\ parseVars' # parseVars)
          => /\ record_count' = record_count + 1
             /\ Len(records') + Len(errors')
                    = Len(records) + Len(errors) + 1]_vars

(* P: the first occurrence of the record magic at or after `from` *)
HasMagicFrom(d, from) ==
    \E p \in from .. Len(d) - 4 : Slice(d, p, p + 4) = EVT_SIGNATURE

FirstMagicFrom(d, from) ==
    CHOOSE p \in from .. Len(d) - 4 :
        /\ Slice(d, p, p + 4) = EVT_SIGNATURE
        /\ \A q \in from .. p - 1 : Slice(d, q, q + 4) # EVT_SIGNATURE

Mismatch(d, off) ==
    /\ off + 8 <= Len(d)
    /\ SigAt(d, off) # EVT_SIGNATURE
    /\ SigAt(d, off) # Slice(EVT_EOF_SIGNATURE, 0, 4)
    /\ HasMagicFrom(d, off + 4)

AtEofMarker(d, off) ==
    /\ off + 8 <= Len(d)
    /\ SigAt(d, off) = Slice(EVT_EOF_SIGNATURE, 0, 4)

(* C24: when the 4 bytes at cursor + 4 are the first 4 bytes of the EOF   *)
(* marker the walk stops at once: the records are those emitted before,   *)
(* and the EOF frame adds nothing to total_records or to the errors.      *)
C24_EofStops ==
    [][/\ (pc = "loop" /\ AtEofMarker(data, offset) /\ parseVars' # parseVars)
            => /\ pc' = "done"
               /\ result'.records = records
               /\ result'.total_records = record_count
               /\ result'.errors = errors
               /\ UNCHANGED <<records, errors, record_count, offset>>
       /\ (ipc = "loop" /\ AtEofMarker(data, ioffset) /\ iterVars' # iterVars)
            => /\ ipc' = "done"
               /\ UNCHANGED <<yielded, ioffset>>]_vars

(* a well-formed record lies behind the EOF frame and was not emitted *)
C24_Witness ==
    /\ pc = "done"
    /\ ipc = "done"
    /\ U32(data, 16) = 48
    /\ SigAt(data, 48) = EVT_SIGNATURE
    /\ AtEofMarker(data, 104)
    /\ SigAt(data, 144) = EVT_SIGNATURE
    /\ Len(data) = 204
    /\ Len(result.records) = 1
    /\ result.total_records = 1
    /\ result.errors = << >>
    /\ Len(yielded) = 1

-----------------------------------------------------------------------------
(* the call reached the dirty check with bit 0 of the flags word at 0x24 *)
(* set and auto_repair off                                               *)
DirtyRefusalCase ==
    /\ cpc = "call"
    /\ ChecksRaise(env) = None
    /\ validate_evt_file(disk, cargs.input_file, OutputPathOf(cargs)) = "ok"
    /\ ~(disk[OutputPathOf(cargs)].exists /\ ~cargs.overwrite)
    /\ Len(disk[cargs.input_file].content) >= EVT_FLAGS_OFFSET + 4
    /\ disk[cargs.input_file].content[EVT_FLAGS_OFFSET + 1] % 2 = 1
    /\ ~cargs.auto_repair

-----------------------------------------------------------------------------
(* 1-based positions of header bytes 0x14-0x1F and of the low flags byte *)
TrailerBytes == {i \in 1 .. 48 : i > END_OFFSET_LOCATION
                                 /\ i <= OLDEST_RECORD_LOCATION + 4}

LowFlagsByte == EVT_FLAGS_OFFSET + 1

(* C30: for a source of at least 40 bytes a successful repair returns a   *)
(* copy of the same length that differs from the source at most in header *)
(* bytes 0x14-0x1F and in bit 0 of the flags word at 0x24; every other    *)
(* flag bit and every other byte is identical, and without an EOF pattern *)
(* in the buffer only flags bit 0 can differ.                             *)
C30_RepairFrame ==
    (Returned /\ Len(data) >= 40)
      => /\ Len(RepairedCopy) = Len(data)
         /\ \A i \in 1 .. Len(data) :
               (i \notin TrailerBytes /\ i # LowFlagsByte)
                  => RepairedCopy[i] = data[i]
         /\ RepairedCopy[LowFlagsByte] \div 2 = data[LowFlagsByte] \div 2
         /\ EofPatternAt(data) = {}
              => \A i \in 1 .. Len(data) :
                    i # LowFlagsByte => RepairedCopy[i] = data[i]

(* a dirty, wrapped buffer with an EOF record: the trailer was rewritten, *)
(* bit 0 cleared and the wrapped bit kept                                 *)
C30_Witness ==
    /\ Returned
    /\ Len(data) >= 40
    /\ U32(data, 36) = 3
    /\ U32(RepairedCopy, 36) = 2
    /\ HasEofRecord(data)
    /\ Slice(RepairedCopy, 20, 32) # Slice(data, 20, 32)
    /\ Len(RepairedCopy) = Len(data)

-----------------------------------------------------------------------------
(* the spans lie inside [start, Len(d)), in strictly increasing cursor *)
(* order, each one ending before the next begins                       *)
SpansInOrder(sp, d, start) ==
    /\ \A i \in 1 .. Len(sp) :
          /\ sp[i].size > 0
          /\ sp[i].cursor >= start
          /\ sp[i].cursor + sp[i].size <= Len(d)
    /\ \A i \in 1 .. Len(sp), j \in 1 .. Len(sp) :
          i < j => /\ sp[i].cursor < sp[j].cursor
                   /\ sp[i].cursor + sp[i].size <= sp[j].cursor

(* every span is the frame of the record emitted with it *)
SpansOfRecords(sp, recs, d) ==
    /\ Len(sp) = Len(recs)
    /\ \A i \in 1 .. Len(sp) :
          recs[i].raw_record
              = Slice(d, sp[i].cursor, sp[i].cursor + sp[i].size)

(* C29: in both walks the byte spans [cursor, cursor + size) of the       *)
(* emitted records lie inside [start offset, buffer length), come in      *)
(* strictly increasing cursor order and are pairwise disjoint, whatever   *)
(* invalid-size skips and resynchronization jumps lie between them.       *)
C29_DisjointSpans ==
    /\ pc \in {"loop", "done"}
          => /\ SpansOfRecords(spans, records, data)
             /\ SpansInOrder(spans, data, U32(data, 16))
    /\ ipc \in {"loop", "done"}
          => /\ SpansOfRecords(ispans, yielded, data)
             /\ SpansInOrder(ispans, data, U32(data, 16))

(* two records were emitted with an invalid-size skip and a jump between *)
(* them: the spans are not adjacent                                      *)
C29_Witness ==
    /\ pc = "done"
    /\ ipc = "done"
    /\ Len(spans) = 2
    /\ spans[1].cursor + spans[1].size < spans[2].cursor
    /\ Len(result.errors) = 1
    /\ ispans = spans

-----------------------------------------------------------------------------
(* Records with variable-length fields, walked by parse_evt_file *)

MaxStrings == 2

(* the string and its zero code unit *)
Terminated(units) == encode_utf16le(units) \o <<0, 0>>

(* a frame of 56 + Len(tail) bytes: the fixed block with the declared *)
(* string count and the offsets and lengths of strings, SID and data, *)
(* then the variable-length part                                      *)
FieldRec(num_strings, string_offset, user_sid_length, user_sid_offset,
         data_length, data_offset, tail) ==
    ToBytes4(EVENTLOGRECORD_HEADER_SIZE + Len(tail)) \o EVT_SIGNATURE
    \o ToBytes4(1) \o Zeros(12) \o <<1, 0>> \o <<num_strings, 0>> \o Zeros(8)
    \o ToBytes4(string_offset)
    \o ToBytes4(user_sid_length) \o ToBytes4(user_sid_offset)
    \o ToBytes4(data_length) \o ToBytes4(data_offset)
    \o tail

(* source name and computer name *)
NameBlocks ==
    { Terminated(<< >>) \o Terminated(<< >>),
      Terminated(<<97>>) \o Terminated(<<98, 99>>),
      encode_utf16le(<<97>>) }

(* the bytes of the SID field *)
SidBlocks ==
    { SidBytes(1, 1, 5, <<21>>), SidBytes(1, 0, 5, << >>),
      SidBytes(1, 2, 5, <<21>>), <<1, 0, 0, 0, 0, 0, 5>>, << >> }

(* the bytes of the string block *)
StringBlocks ==
    { Terminated(<<97>>) \o Terminated(<<98>>), Terminated(<<97>>),
      encode_utf16le(<<97, 98>>), encode_utf16le(<<97>>) \o <<66>>, << >> }

DataBlocks == { << >>, <<9, 9>> }

(* where a declared offset points: at the field, nowhere, or so that the *)
(* field would end behind the record                                     *)
OffsetKinds == {"at", "zero", "past"}

DeclaredOffset(kind, at, size) ==
    IF kind = "at" THEN at
    ELSE IF kind = "zero" THEN 0
    ELSE size - 4

FieldRecs ==
    { LET at_sid == EVENTLOGRECORD_HEADER_SIZE + Len(names)
          at_str == at_sid + Len(sid)
          at_data == at_str + Len(strs)
          size == at_data + Len(dat)
      IN  FieldRec(n, DeclaredOffset(str_kind, at_str, size),
                   Len(sid), DeclaredOffset(sid_kind, at_sid, size),
                   Len(dat), at_data,
                   names \o sid \o strs \o dat) :
        names \in NameBlocks, sid \in SidBlocks, sid_kind \in OffsetKinds,
        n \in 0 .. MaxStrings, strs \in StringBlocks,
        str_kind \in OffsetKinds, dat \in DataBlocks }

(* n times the code unit 'a', and its bytes with the terminator *)
LongName(n) == [i \in 1 .. n |-> 97]
TerminatedLongName(n) ==
    [i \in 1 .. 2 * n + 2 |-> IF i % 2 = 1 /\ i <= 2 * n THEN 97 ELSE 0]

(* names around the cap of the scan *)
NameLengths ==
    { DEFAULT_MAX_LEN \div 2 - 1, DEFAULT_MAX_LEN \div 2,
      DEFAULT_MAX_LEN \div 2 + 1, DEFAULT_MAX_LEN }

LongNameRecs ==
    { FieldRec(0, 0, 0, 0, 0, 0,
               TerminatedLongName(n) \o Terminated(<<98>>)) :
        n \in NameLengths }
    \cup { FieldRec(0, 0, 0, 0, 0, 0,
                    Terminated(<<98>>) \o TerminatedLongName(n)) :
             n \in NameLengths }

RecordInputs ==
    { Header(EVT_SIGNATURE, 48, 0, 0, 0, 0) \o r :
        r \in FieldRecs \cup LongNameRecs }
    \cup { Header(EVT_SIGNATURE, 48, 0, 0, 0, 0) \o r
           \o EofRec(48, 48 + Len(r), 2, 1) : r \in LongNameRecs }

InitRecord ==
    /\ data \in RecordInputs
    /\ IdleParse
    /\ IdleRepair
    /\ IdleFields
    /\ IdleConvert
    /\ IdleBatch
    /\ files = [p \in Paths |-> Absent]

NextRecord == ParseStart \/ ParseRecord \/ ParseExit \/ ParseEof

SpecRecord == InitRecord /\ [][NextRecord]_vars

-----------------------------------------------------------------------------
(* Claims about the variable-length fields, checked under SpecRecord *)

(* a zero code unit at or behind off, inside d *)
HasTerminator(d, off) ==
    \E k \in 0 .. (Len(d) - off) \div 2 - 1 : CodeUnitAt(d, off + 2 * k) = 0

(* the number of non-zero code units at off before the first zero one *)
RunLength(d, off) ==
    CHOOSE k \in 0 .. (Len(d) - off) \div 2 - 1 :
        /\ CodeUnitAt(d, off + 2 * k) = 0
        /\ \A i \in 0 .. k - 1 : CodeUnitAt(d, off + 2 * i) # 0

(* the name at off is a run of at most 1024 code units with its *)
(* terminator inside the record                                 *)
NameWithinCap(d, off) ==
    /\ HasTerminator(d, off)
    /\ RunLength(d, off) <= DEFAULT_MAX_LEN
    /\ WellFormedUtf16(UnitsAt(d, off, RunLength(d, off)))

(* C21: the scan of a source name or computer name stops at the first     *)
(* zero code unit or at a cap of 1024 UTF-16 code units: a run of up to   *)
(* 1024 non-zero code units followed by a terminator inside the record is *)
(* returned in full.  The cap of the code is 1024 bytes, 512 code units.  *)
C21_NamesInFull ==
    \A i \in 1 .. Len(records) :
        LET raw == records[i].raw_record
            at_source == EVENTLOGRECORD_HEADER_SIZE
        IN  NameWithinCap(raw, at_source)
              => LET n == RunLength(raw, at_source)
                     at_computer == at_source + 2 * n + 2
                 IN  /\ records[i].source = UnitsAt(raw, at_source, n)
                     /\ NameWithinCap(raw, at_computer)
                          => records[i].computer_name
                                = UnitsAt(raw, at_computer,
                                          RunLength(raw, at_computer))

(* a frame at off that is decoded: record magic, a valid declared size *)
(* and all of its bytes inside d                                       *)
Framed(d, off) ==
    /\ off + 8 < Len(d)
    /\ SigAt(d, off) = EVT_SIGNATURE
    /\ U32(d, off) >= EVENTLOGRECORD_HEADER_SIZE
    /\ U32(d, off) <= MaxRecordSize
    /\ off + U32(d, off) <= Len(d)

(* the declared SID field of the record: length >= 8, offset > 0, inside *)
(* the record, and long enough for its sub-authority count               *)
SidFieldValid(raw) ==
    LET user_sid_length == U32(raw, 40)
        user_sid_offset == U32(raw, 44)
    IN  /\ user_sid_length >= 8
        /\ user_sid_offset > 0
        /\ user_sid_offset + user_sid_length <= Len(raw)
        /\ user_sid_length >= 8 + 4 * raw[user_sid_offset + 2]

(* C25: a decoded record carries a security identifier only if the        *)
(* declared SID length is >= 8, the offset > 0, offset + length <= record *)
(* size and the SID bytes hold 8 + 4N bytes for their sub-authority count *)
(* N; otherwise the record is still emitted, with user_sid absent and     *)
(* without an error.                                                      *)
C25_SidOnlyIfValid ==
    [][(pc = "loop" /\ Framed(data, offset) /\ parseVars' # parseVars)
          => /\ Len(records') = Len(records) + 1
             /\ errors' = errors
             /\ LET r == records'[Len(records')]
                IN  /\ r.raw_record
                          = Slice(data, offset, offset + U32(data, offset))
                    /\ r.user_sid # None
                          => (SidFieldValid(r.raw_record)
                              /\ r.user_sid.kind = "str")
                    /\ ~SidFieldValid(r.raw_record) => r.user_sid = None]_vars

(* a record whose SID declares two sub-authorities in 12 bytes was *)
(* emitted without a SID and without an error                      *)
C25_Witness ==
    /\ pc = "done"
    /\ Len(records) = 1
    /\ U32(records[1].raw_record, 40) = 12
    /\ U32(records[1].raw_record, 44) = 60
    /\ records[1].raw_record[62] = 2
    /\ records[1].user_sid = None
    /\ result.errors = << >>
    /\ result.valid_records = 1

(* the strings of a block of bytes: up to n, each ending at the first zero *)
(* code unit or with the last whole code unit of the block                 *)
RECURSIVE StringsOfBlock(_, _)
StringsOfBlock(block, n) ==
    IF n = 0 \/ block = << >> THEN << >>
    ELSE LET units == Len(block) \div 2
             k == IF HasTerminator(block, 0) THEN RunLength(block, 0)
                  ELSE units
         IN  <<decode_utf16le(Slice(block, 0, 2 * k))>>
             \o StringsOfBlock(Slice(block, 2 * k + 2, Len(block)), n - 1)

(* C26: the list of description strings of a framed record has at most    *)
(* as many entries as the declared string count, every entry is decoded   *)
(* only from the bytes of the record from the declared string offset on,  *)
(* and when the record ends before the declared count is reached the      *)
(* record is still emitted with the shorter list and without an error.    *)
C26_StringsInsideRecord ==
    [][(pc = "loop" /\ Framed(data, offset) /\ parseVars' # parseVars)
          => /\ Len(records') = Len(records) + 1
             /\ errors' = errors
             /\ LET r == records'[Len(records')]
                    raw == Slice(data, offset, offset + U32(data, offset))
                    num_strings == U16(raw, 26)
                    string_offset == U32(raw, 36)
                IN  /\ Len(r.strings) <= num_strings
                    /\ r.strings =
                         IF string_offset > 0
                         THEN StringsOfBlock(
                                  Slice(raw, string_offset, Len(raw)),
                                  num_strings)
                         ELSE << >>]_vars

(* two strings are declared and the record ends after the first *)
C26_Witness ==
    /\ pc = "done"
    /\ Len(records) = 1
    /\ U16(records[1].raw_record, 26) = 2
    /\ U32(records[1].raw_record, 36) = Len(records[1].raw_record) - 4
    /\ records[1].strings = << <<97>> >>
    /\ result.errors = << >>

-----------------------------------------------------------------------------
(* cli.py: parse_single and parse_batch.  The CLI calls parse_evt_file on *)
(* one file at a time: `data` holds the bytes of the file being parsed    *)
(* and the walker of parse_evt_file runs on it; `results` records, for    *)
(* every file, what the parse gave and how the CLI took it.               *)

JsonOutput == "out.json"

(* out_path / f"{evt_file.stem}.{ext}" or evt_file.with_suffix(f".{ext}") *)
ParseOutputPath(evt_file, output_dir) ==
    IF output_dir # "None"
    THEN output_dir \o "/" \o Stem(evt_file) \o ".json"
    ELSE Stem(evt_file) \o ".json"

CliPaths ==
    DiskPaths \cup {JsonOutput}
    \cup {ParseOutputPath(p, d) : p \in SourcePaths, d \in {"None", OutDir}}

(* the text the formatter gives for a result, kept as its record count *)
Formatted(res) == File(<<res.valid_records>>)

(* contents of the files given to the CLI *)
EmptyLog == Header(EVT_SIGNATURE, 48, 48, 0, 0, 0)
OneRecordLog ==
    Header(EVT_SIGNATURE, 48, 104, 2, 1, 0) \o Rec(56, 56, 1)
    \o EofRec(48, 104, 2, 1)
CorruptLog == Header(EVT_SIGNATURE, 48, 0, 0, 0, 0) \o Rec(55, 56, 3)
PartialLog ==
    Header(EVT_SIGNATURE, 48, 0, 0, 0, 0) \o Garbage(3) \o Rec(56, 56, 1)
    \o Rec(65537, 56, 4)

CliFileContents ==
    {Absent, File(EmptyLog), File(OneRecordLog), File(CorruptLog),
     File(PartialLog), File(TinyFile)}

CliParseArgs ==
    [kind : {"parse_single"}, input_file : {EvtName(1)},
     output_file : {"None", JsonOutput}]
    \cup [kind : {"parse_batch"},
          batch_dir : {CurrentDir, NotesPath, MissingDir},
          output_dir : {"None", OutDir}]

CliDisk(inputs) ==
    [p \in CliPaths |->
        IF p = CurrentDir THEN Directory
        ELSE IF p = NotesPath THEN File(EmptyLog)
        ELSE IF \E i \in 1 .. MaxFiles : p = EvtName(i)
        THEN inputs[CHOOSE i \in 1 .. MaxFiles : p = EvtName(i)]
        ELSE Absent]

cliFrame ==
    <<iterVars, repairVars, fieldVars, env, cpc, cargs, temp_file,
      effective_input, cresult, tool_calls, cleanup, bargs, skipped,
      callbacks, summary>>

(* parse_evt_file(evt_file) is entered: the walker starts on its bytes *)
OpenFile(evt_file) ==
    /\ data' = disk[evt_file].content
    /\ pc' = "start"
    /\ offset' = 0
    /\ record_count' = 0
    /\ records' = << >>
    /\ errors' = << >>
    /\ result' = None
    /\ spans' = << >>

ParseFinished == pc \in {"done", "raised"}

(* what parse_evt_file gave for the file and what the CLI made of it *)
FileOutcome(evt_file, io_ok, counted) ==
    [file |-> evt_file,
     raised |-> pc = "raised",
     valid_records |-> IF pc = "done" THEN result.valid_records ELSE 0,
     total_records |-> IF pc = "done" THEN result.total_records ELSE 0,
     io_ok |-> io_ok,
     counted |-> counted]

(* parse_single, lines 289-293: parse_evt_file raises for a missing file *)
ParseSingleStart ==
    /\ bpc = "call"
    /\ bargs.kind = "parse_single"
    /\ IF ~disk[bargs.input_file].exists
       THEN /\ bpc' = "returned"
            /\ exit_code' = [kind |-> "int", value |-> 1]
            /\ UNCHANGED <<data, parseVars>>
       ELSE /\ bpc' = "parse"
            /\ OpenFile(bargs.input_file)
            /\ UNCHANGED exit_code
    /\ UNCHANGED <<cliFrame, disk, evt_files, index, successful, failed,
                   results>>

(* parse_single, lines 295-341: 1 when the parse raised or the result is  *)
(* no success without a valid record; otherwise the output is formatted   *)
(* and written or printed, 0, or 1 when formatting or writing failed      *)
ParseSingleFinish ==
    /\ bpc = "parse"
    /\ bargs.kind = "parse_single"
    /\ ParseFinished
    /\ bpc' = "returned"
    /\ IF (IF pc = "raised" THEN TRUE
           ELSE /\ ~success(result.valid_records, result.total_records)
                /\ result.valid_records = 0)
       THEN /\ exit_code' = [kind |-> "int", value |-> 1]
            /\ results' = <<FileOutcome(bargs.input_file, TRUE, "failed")>>
            /\ UNCHANGED disk
       ELSE \E io_ok \in BOOLEAN :
              /\ exit_code' = [kind |-> "int",
                               value |-> IF io_ok THEN 0 ELSE 1]
              /\ results' =
                   <<FileOutcome(bargs.input_file, io_ok,
                                 IF io_ok THEN "successful" ELSE "failed")>>
              /\ disk' = IF io_ok /\ bargs.output_file # "None"
                         THEN [disk EXCEPT
                                  ![bargs.output_file] = Formatted(result)]
                         ELSE disk
    /\ UNCHANGED <<cliFrame, data, parseVars, evt_files, index, successful,
                   failed>>

(* parse_batch, lines 370-402: not a directory or no .evt file gives 1;   *)
(* otherwise the output directory is made and the first file is parsed    *)
ParseBatchStart ==
    /\ bpc = "call"
    /\ bargs.kind = "parse_batch"
    /\ LET found == find_evt_files(disk, bargs.batch_dir)
       IN  IF found.kind # "list" \/ found.files = << >>
           THEN /\ bpc' = "returned"
                /\ exit_code' = [kind |-> "int", value |-> 1]
                /\ UNCHANGED <<data, parseVars, disk, evt_files, index>>
           ELSE /\ bpc' = "parse"
                /\ evt_files' = found.files
                /\ index' = 1
                /\ disk' = IF bargs.output_dir # "None"
                           THEN mkdir(disk, bargs.output_dir)
                           ELSE disk
                /\ OpenFile(found.files[1])
                /\ UNCHANGED exit_code
    /\ successful' = 0
    /\ failed' = 0
    /\ UNCHANGED <<cliFrame, results>>

(* "if result.valid_records > 0" *)
CountsAsParsed(res) ==
    res.valid_records > 0

(* parse_batch, lines 404-426: the file just parsed is counted, its       *)
(* output written, and the next file is parsed or the loop is left        *)
ParseBatchCount ==
    /\ bpc = "parse"
    /\ bargs.kind = "parse_batch"
    /\ ParseFinished
    /\ LET evt_file == evt_files[index]
       IN  \/ /\ pc = "done"
              /\ CountsAsParsed(result)
              /\ \E io_ok \in BOOLEAN :
                    IF io_ok
                    THEN /\ disk' = [disk EXCEPT
                                ![ParseOutputPath(evt_file, bargs.output_dir)]
                                    = Formatted(result)]
                         /\ successful' = successful + 1
                         /\ failed' = failed
                         /\ results' = Append(results,
                                FileOutcome(evt_file, TRUE, "successful"))
                    ELSE /\ failed' = failed + 1
                         /\ results' = Append(results,
                                FileOutcome(evt_file, FALSE, "failed"))
                         /\ UNCHANGED <<disk, successful>>
           \/ /\ IF pc = "raised" THEN TRUE ELSE ~CountsAsParsed(result)
              /\ failed' = failed + 1
              /\ results' = Append(results,
                                   FileOutcome(evt_file, TRUE, "failed"))
              /\ UNCHANGED <<disk, successful>>
    /\ IF index < Len(evt_files)
       THEN /\ index' = index + 1
            /\ OpenFile(evt_files[index + 1])
            /\ UNCHANGED bpc
       ELSE /\ bpc' = "summary"
            /\ UNCHANGED <<index, data, parseVars>>
    /\ UNCHANGED <<cliFrame, evt_files, exit_code>>

(* parse_batch, lines 428-443: the summary and the exit code *)
ParseBatchReturn ==
    /\ bpc = "summary"
    /\ bpc' = "returned"
    /\ exit_code' = [kind |-> "int",
                     value |-> IF failed = 0 THEN 0
                               ELSE IF successful = 0 THEN 1
                               ELSE 2]
    /\ UNCHANGED <<cliFrame, data, parseVars, disk, evt_files, index,
                   successful, failed, results>>

InitCli ==
    /\ data = << >>
    /\ IdleParse
    /\ IdleRepair
    /\ files = << >>
    /\ IdleFields
    /\ \E cli \in CliParseArgs, inputs \in [1 .. MaxFiles -> CliFileContents] :
          /\ cli.kind = "parse_single"
                => \A i \in 2 .. MaxFiles : inputs[i] = Absent
          /\ cli.kind = "parse_batch" /\ cli.batch_dir # CurrentDir
                => \A i \in 1 .. MaxFiles : inputs[i] = Absent
          /\ bargs = cli
          /\ disk = CliDisk(inputs)
    /\ env = None
    /\ cpc = "idle"
    /\ cargs = None
    /\ temp_file = None
    /\ effective_input = None
    /\ cresult = None
    /\ tool_calls = << >>
    /\ cleanup = None
    /\ bpc = "call"
    /\ evt_files = << >>
    /\ index = 0
    /\ successful = 0
    /\ failed = 0
    /\ skipped = 0
    /\ results = << >>
    /\ callbacks = << >>
    /\ summary = None
    /\ exit_code = None

(* the steps of parse_evt_file inside the call made by the CLI *)
CliParseStart == bpc = "parse" /\ ParseStart
CliParseExit == bpc = "parse" /\ ParseExit
CliParseEof == bpc = "parse" /\ ParseEof
CliParseResync == bpc = "parse" /\ ParseResync
CliParseRecord == bpc = "parse" /\ ParseRecord

NextCli ==
    \/ ParseSingleStart
    \/ ParseBatchStart
    \/ CliParseStart
    \/ CliParseExit
    \/ CliParseEof
    \/ CliParseResync
    \/ CliParseRecord
    \/ ParseSingleFinish
    \/ ParseBatchCount
    \/ ParseBatchReturn

SpecCli == InitCli /\ [][NextCli]_vars

(* C28: the CLI applies one success criterion: parse_batch counts a file  *)
(* as successfully parsed exactly when its parse outcome has success true *)
(* (at least one valid record, or zero total records), the criterion      *)
(* under which parse_single exits with 0.  Files whose parse raised or    *)
(* whose output could not be written are left aside.                      *)
C28_UniformSuccess ==
    \A i \in 1 .. Len(results) :
        (results[i].io_ok /\ ~results[i].raised)
            => (results[i].counted = "successful"
                  <=> (results[i].valid_records > 0
                       \/ results[i].total_records = 0))

====
